---- MODULE Spec2Model ----
(***************************************************************************)
(* The subsidy-analyzer workflow of langgraph_analyzer: the three entry    *)
(* points of SubsidyAnalyzerGraph, the six node functions the compiled     *)
(* graph threads one SubsidyState through, and the helpers of utils.py     *)
(* they call.                                                              *)
(*                                                                         *)
(* Encoding of Python values:                                              *)
(*   str            a sequence of chunks; the characters the code looks at *)
(*                  (digits, "/", braces, ...) are chunks of their own     *)
(*   Optional[T]    NoneV (the empty tuple) or Some(v) (the 1-tuple <<v>>) *)
(*   dict           a function whose domain is the set of its keys         *)
(*   list           a sequence                                             *)
(***************************************************************************)
EXTENDS Integers, Sequences, FiniteSets, TLC

VARIABLES
    pc,          \* "idle", the node about to run, or "done" (the entry point returned)
    entry,       \* the entry point called and its argument
    state,       \* the SubsidyState of the run
    result,      \* Optional: the mapping the entry point returned
    trace,       \* the nodes that have run, in the order they ran
    path,        \* how the entry point returned: "precheck", "pipeline" or "exception"
    completion,  \* what llm.invoke did in analyze_subsidy_node, and each call made of it
    api_call,    \* Optional: what the registry request of fetch_subsidy_info_node did
    raised,      \* Optional: str(e) of the exception workflow.invoke raised
    saved,       \* the artifacts save_results_node has written: path and file text
    downloads,   \* Optional: what the collaborators of download_pdfs_node did, per reference
    runs,        \* two interleaved calls: for each, its position, RunState and responses
    heap,        \* two interleaved calls: the mappings their subsidy_data fields refer to
    applied      \* Optional: a helper called on its own, its argument and what it returned

vars == <<pc, entry, state, result, trace, path, completion, api_call, raised,
          saved, downloads, runs, heap, applied>>

\* what one call, followed from its entry point to its return, uses
runVars == <<pc, entry, state, result, trace, path, completion, api_call, raised, saved>>
\* what only the specification of a single node uses
stageVars == <<downloads>>
\* what only the specification of two interleaved calls uses
pairVars == <<runs, heap>>
\* what only the specification of the helpers uses
utilVars == <<applied>>

----------------------------------------------------------------------------
(* Python values *)

NoneV == <<>>
Some(v) == <<v>>
IsNone(o) == o = NoneV
Val(o) == o[1]

\* bool(x) of a str, list or dict held raw
TruthySeq(s) == s # <<>>
\* bool(x) of an Optional[str] / Optional[list]: None and "" are falsy
TruthyOpt(o) == o # NoneV /\ Val(o) # <<>>
\* a or b, on Optional[str]
OrOpt(a, b) == IF TruthyOpt(a) THEN a ELSE b

EmptyDict == [k \in {} |-> NoneV]
\* d.get(k)
Get(d, k) == IF k \in DOMAIN d THEN Some(d[k]) ELSE NoneV
\* a variant in which the keys d already has keep their values
Update_KeepsExisting(d, e) ==
    [k \in DOMAIN d \cup DOMAIN e |-> IF k \in DOMAIN d THEN d[k] ELSE e[k]]
\* d.update(e), as a value
Update(d, e) == [k \in DOMAIN d \cup DOMAIN e |-> IF k \in DOMAIN e THEN e[k] ELSE d[k]]
\* d[k] = v, as a value
Put(d, k, v) == [x \in DOMAIN d \cup {k} |-> IF x = k THEN v ELSE d[x]]

----------------------------------------------------------------------------
(* utils.py *)

Digits == {"0", "1", "2", "3", "4", "5", "6", "7", "8", "9"}

\* the length of the longest suffix of url made of digits only
RECURSIVE TrailingDigits(_)
TrailingDigits(url) ==
    IF url = <<>> \/ url[Len(url)] \notin Digits THEN 0
    ELSE 1 + TrailingDigits(SubSeq(url, 1, Len(url) - 1))

\* re.search(r'/(\d+)$', url): group 1, or None
extract_bdns_from_url(url) ==
    LET n == TrailingDigits(url) IN
    IF n >= 1 /\ Len(url) > n /\ url[Len(url) - n] = "/"
    THEN Some(SubSeq(url, Len(url) - n + 1, Len(url)))
    ELSE NoneV

----------------------------------------------------------------------------
(* graph.py: the state an entry point creates *)

SubsidyState(bdns_code, source_url, subsidy_data) ==
    [ bdns_code       |-> bdns_code,
      source_url      |-> source_url,
      subsidy_data    |-> subsidy_data,
      pdf_urls        |-> <<>>,
      pdf_texts       |-> <<>>,
      pdf_count       |-> 0,
      analysis_result |-> NoneV,
      raw_analysis    |-> NoneV,
      error           |-> NoneV,
      logs            |-> <<>>,
      processing_time |-> NoneV ]

ConvocatoriasUrl == <<"https://www.subvenciones.gob.es/bdnstrans/GE/es/convocatorias", "/">>

----------------------------------------------------------------------------
(* nodes.py *)

\* a variant that asks the URL before the code the state holds
extract_bdns_node_UrlFirst(st) ==
    LET fromUrl ==
            IF TruthyOpt(st.source_url) /\ TruthyOpt(extract_bdns_from_url(Val(st.source_url)))
            THEN extract_bdns_from_url(Val(st.source_url))
            ELSE Some(st.bdns_code)
        fromData ==
            IF ~TruthyOpt(fromUrl)
            THEN OrOpt(Get(st.subsidy_data, "codigo_bdns"), Get(st.subsidy_data, "bdns_code"))
            ELSE fromUrl
    IN  IF ~TruthyOpt(fromData)
        THEN [st EXCEPT !.error = Some(<<"No BDNS code could be extracted">>)]
        ELSE [st EXCEPT !.bdns_code = Val(fromData),
                        !.logs = @ \o << <<"BDNS code: ">> \o Val(fromData) >>]

\* if not bdns_code and source_url: extract_bdns_node calls extract_bdns_from_url
ParsesUrl(st) == ~TruthySeq(st.bdns_code) /\ TruthyOpt(st.source_url)

extract_bdns_node(st) ==
    LET fromUrl ==
            IF ParsesUrl(st)
            THEN extract_bdns_from_url(Val(st.source_url))
            ELSE Some(st.bdns_code)
        st1 == IF ParsesUrl(st) /\ TruthyOpt(fromUrl)
               THEN [st EXCEPT !.bdns_code = Val(fromUrl)]
               ELSE st
        fromData ==
            IF ~TruthyOpt(fromUrl)
            THEN OrOpt(Get(st.subsidy_data, "codigo_bdns"), Get(st.subsidy_data, "bdns_code"))
            ELSE fromUrl
        st2 == IF ~TruthyOpt(fromUrl) /\ TruthyOpt(fromData)
               THEN [st1 EXCEPT !.bdns_code = Val(fromData)]
               ELSE st1
    IN  IF ~TruthyOpt(fromData)
        THEN [st2 EXCEPT !.error = Some(<<"No BDNS code could be extracted">>)]
        ELSE [st2 EXCEPT !.logs = @ \o << <<"BDNS code: ">> \o Val(fromData) >>]

\* str(e) of the exceptions the collaborators raise: an exception may carry no message
ExcMessages == { <<>>, <<"connection timed out">> }

\* what session.get(api_url) did: raised, or returned a response whose json() gives
\* body (None: json() raises)
ApiRaised(msg) == [kind |-> "raise", status |-> 0, body |-> NoneV, msg |-> msg]
ApiResponse(status, body, msg) == [kind |-> "http", status |-> status, body |-> body, msg |-> msg]

\* a variant that requests the URL whatever the code is
RegistryRequest_Unchecked(st) ==
    Some(<<"https://www.subvenciones.gob.es/bdnstrans/api/convocatorias?numConv=">>
         \o st.bdns_code \o <<"&vpd=GE">>)

\* Optional: the URL fetch_subsidy_info_node calls session.get with
RegistryRequest(st) ==
    IF ~TruthySeq(st.bdns_code) THEN NoneV
    ELSE Some(<<"https://www.subvenciones.gob.es/bdnstrans/api/convocatorias?numConv=">>
              \o st.bdns_code \o <<"&vpd=GE">>)

\* a variant that treats a non-200 answer as fatal
fetch_subsidy_info_node_ErrorOnStatus(st, resp) ==
    IF ~TruthySeq(st.bdns_code)
    THEN [st EXCEPT !.error = Some(<<"No BDNS code available for API call">>)]
    ELSE IF resp.kind = "raise" \/ (resp.status = 200 /\ IsNone(resp.body))
    THEN [st EXCEPT !.error = Some(<<"Error fetching subsidy info: ">> \o resp.msg)]
    ELSE IF resp.status = 200
    THEN [st EXCEPT !.subsidy_data = Update(@, Val(resp.body)),
                    !.logs = @ \o << <<"API data fetched successfully">> >>]
    ELSE [st EXCEPT !.error = Some(<<"API call failed with status: ", ToString(resp.status)>>)]

\* a variant that returns at once when an earlier node has already set error
fetch_subsidy_info_node_KeepsFirstError(st, resp) ==
    IF st.error # NoneV
    THEN st
    ELSE IF ~TruthySeq(st.bdns_code)
    THEN [st EXCEPT !.error = Some(<<"No BDNS code available for API call">>)]
    ELSE IF resp.kind = "raise" \/ (resp.status = 200 /\ IsNone(resp.body))
    THEN [st EXCEPT !.error = Some(<<"Error fetching subsidy info: ">> \o resp.msg)]
    ELSE IF resp.status = 200
    THEN [st EXCEPT !.subsidy_data = Update(@, Val(resp.body)),
                    !.logs = @ \o << <<"API data fetched successfully">> >>]
    ELSE [st EXCEPT !.logs = @ \o << <<"API call failed with status: ", ToString(resp.status)>> >>]

\* a variant whose except clause writes to logs and leaves error alone
fetch_subsidy_info_node_LogsException(st, resp) ==
    IF ~TruthySeq(st.bdns_code)
    THEN [st EXCEPT !.error = Some(<<"No BDNS code available for API call">>)]
    ELSE IF resp.kind = "raise" \/ (resp.status = 200 /\ IsNone(resp.body))
    THEN [st EXCEPT !.logs = @ \o << <<"Error fetching subsidy info: ">> \o resp.msg >>]
    ELSE IF resp.status = 200
    THEN [st EXCEPT !.subsidy_data = Update(@, Val(resp.body)),
                    !.logs = @ \o << <<"API data fetched successfully">> >>]
    ELSE [st EXCEPT !.logs = @ \o << <<"API call failed with status: ", ToString(resp.status)>> >>]

fetch_subsidy_info_node(st, resp) ==
    IF ~TruthySeq(st.bdns_code)
    THEN [st EXCEPT !.error = Some(<<"No BDNS code available for API call">>)]
    ELSE IF resp.kind = "raise" \/ (resp.status = 200 /\ IsNone(resp.body))
    THEN [st EXCEPT !.error = Some(<<"Error fetching subsidy info: ">> \o resp.msg)]
    ELSE IF resp.status = 200
    THEN [st EXCEPT !.subsidy_data = Update(@, Val(resp.body)),
                    !.logs = @ \o << <<"API data fetched successfully">> >>]
    ELSE [st EXCEPT !.logs = @ \o << <<"API call failed with status: ", ToString(resp.status)>> >>]

\* str.lower() on the letters the model's names use
UpperCase == <<"B", "D", "F", "P">>
LowerCase == <<"b", "d", "f", "p">>
LowerChar(c) ==
    IF \E i \in 1..Len(UpperCase) : UpperCase[i] = c
    THEN LowerCase[CHOOSE i \in 1..Len(UpperCase) : UpperCase[i] = c]
    ELSE c
Lower(s) == [i \in 1..Len(s) |-> LowerChar(s[i])]

\* sub in s
Contains(s, sub) ==
    \E i \in 1..(Len(s) - Len(sub) + 1) : SubSeq(s, i, i + Len(sub) - 1) = sub

DocumentUrl == <<"https://www.subvenciones.gob.es/bdnstrans/GE/es/convocatoria", "/">>

\* An element of subsidy_data['documentos'] is a JSON value: [t |-> "obj", o |-> d]
\* for a mapping d of field names to strings, [t |-> "str", ...] for a string.

\* a variant that classifies by the type field alone
PdfUrlOf_TypeOnly(doc, bdns_code) ==
    LET doc_name == OrOpt(Get(doc.o, "nombreFic"),
                      OrOpt(Get(doc.o, "nombre"),
                       OrOpt(Get(doc.o, "name"), Some(<<"U", "n", "k", "n", "o", "w", "n">>))))
        doc_type == OrOpt(Get(doc.o, "tipo"), OrOpt(Get(doc.o, "type"), Some(<<>>)))
        doc_id   == Get(doc.o, "id")
    IN  IF Val(doc_type) = <<"P", "D", "F">> /\ TruthyOpt(doc_id)
        THEN << [ url  |-> DocumentUrl \o bdns_code \o <<"/", "document", "/">> \o Val(doc_id),
                  name |-> Val(doc_name),
                  id   |-> Val(doc_id) ] >>
        ELSE <<>>

\* one iteration of the loop over subsidy_data['documentos']: the entries doc adds to pdf_urls
PdfUrlOf(doc, bdns_code) ==
    LET doc_name == OrOpt(Get(doc.o, "nombreFic"),
                      OrOpt(Get(doc.o, "nombre"),
                       OrOpt(Get(doc.o, "name"), Some(<<"U", "n", "k", "n", "o", "w", "n">>))))
        doc_type == OrOpt(Get(doc.o, "tipo"), OrOpt(Get(doc.o, "type"), Some(<<>>)))
        doc_id   == Get(doc.o, "id")
    IN  IF (Val(doc_type) = <<"P", "D", "F">> \/ Contains(Lower(Val(doc_name)), <<"p", "d", "f">>))
           /\ TruthyOpt(doc_id)
        THEN << [ url  |-> DocumentUrl \o bdns_code \o <<"/", "document", "/">> \o Val(doc_id),
                  name |-> Val(doc_name),
                  id   |-> Val(doc_id) ] >>
        ELSE <<>>

RECURSIVE PdfUrls(_, _)
PdfUrls(docs, bdns_code) ==
    IF docs = <<>> THEN <<>>
    ELSE PdfUrlOf(Head(docs), bdns_code) \o PdfUrls(Tail(docs), bdns_code)

\* doc.get raises AttributeError when an element of the list is not a mapping
GetRaises(docs) == \E i \in 1..Len(docs) : docs[i].t # "obj"

\* a variant that adds the references it finds to those already in the state
find_pdf_urls_node_Accumulates(st) ==
    LET docs == Get(st.subsidy_data, "documentos")
    IN  IF TruthyOpt(docs) /\ GetRaises(Val(docs))
        THEN [st EXCEPT !.error = Some(<<"Error finding PDFs: ",
                                         "'str' object has no attribute 'get'">>)]
        ELSE LET pdf_urls == st.pdf_urls \o
                     (IF TruthyOpt(docs) THEN PdfUrls(Val(docs), st.bdns_code) ELSE <<>>)
             IN  [st EXCEPT !.pdf_urls = pdf_urls,
                            !.logs = @ \o << <<"Found ", ToString(Len(pdf_urls)), " PDFs">> >>]

\* a variant that emits no reference while the code is empty
find_pdf_urls_node_NeedsCode(st) ==
    LET docs == Get(st.subsidy_data, "documentos")
    IN  IF TruthyOpt(docs) /\ GetRaises(Val(docs))
        THEN [st EXCEPT !.error = Some(<<"Error finding PDFs: ",
                                         "'str' object has no attribute 'get'">>)]
        ELSE LET pdf_urls == IF TruthyOpt(docs) /\ TruthySeq(st.bdns_code) THEN PdfUrls(Val(docs), st.bdns_code) ELSE <<>>
             IN  [st EXCEPT !.pdf_urls = pdf_urls,
                            !.logs = @ \o << <<"Found ", ToString(Len(pdf_urls)), " PDFs">> >>]

find_pdf_urls_node(st) ==
    LET docs == Get(st.subsidy_data, "documentos")
    IN  IF TruthyOpt(docs) /\ GetRaises(Val(docs))
        THEN [st EXCEPT !.error = Some(<<"Error finding PDFs: ",
                                         "'str' object has no attribute 'get'">>)]
        ELSE LET pdf_urls == IF TruthyOpt(docs) THEN PdfUrls(Val(docs), st.bdns_code) ELSE <<>>
             IN  [st EXCEPT !.pdf_urls = pdf_urls,
                            !.logs = @ \o << <<"Found ", ToString(Len(pdf_urls)), " PDFs">> >>]

----------------------------------------------------------------------------
(* utils.py: file names and PDF sniffing *)

Letters == {"a", "b", "d", "e", "f", "n", "o", "p", "s", "x", "B", "D", "F", "P", "U", "k", "w"}
WordChars == Letters \cup Digits \cup {"_"}
SpaceChars == {" ", "\t", "\n"}

\* re.sub(r'[^\w\s-]', '', filename)
RECURSIVE RemoveSpecial(_)
RemoveSpecial(s) ==
    IF s = <<>> THEN <<>>
    ELSE (IF Head(s) \in WordChars \cup SpaceChars \cup {"-"} THEN <<Head(s)>> ELSE <<>>)
         \o RemoveSpecial(Tail(s))

\* a variant that writes one "_" for each hyphen and each whitespace character
RECURSIVE CollapseSeparators_EachSeparator(_, _)
CollapseSeparators_EachSeparator(s, inRun) ==
    IF s = <<>> THEN <<>>
    ELSE IF Head(s) \in SpaceChars \cup {"-"}
         THEN <<"_">> \o CollapseSeparators_EachSeparator(Tail(s), TRUE)
         ELSE <<Head(s)>> \o CollapseSeparators_EachSeparator(Tail(s), FALSE)

\* re.sub(r'[-\s]+', '_', s): every maximal run of hyphens and whitespace becomes one "_"
RECURSIVE CollapseSeparators(_, _)
CollapseSeparators(s, inRun) ==
    IF s = <<>> THEN <<>>
    ELSE IF Head(s) \in SpaceChars \cup {"-"}
         THEN (IF inRun THEN <<>> ELSE <<"_">>) \o CollapseSeparators(Tail(s), TRUE)
         ELSE <<Head(s)>> \o CollapseSeparators(Tail(s), FALSE)

max_length == 50

clean_filename(filename) ==
    LET safe_name == CollapseSeparators(RemoveSpecial(filename), FALSE)
    IN  SubSeq(safe_name, 1, IF Len(safe_name) < max_length THEN Len(safe_name) ELSE max_length)

\* content.startswith(b'%PDF')
validate_pdf_content(content) ==
    Len(content) >= 4 /\ SubSeq(content, 1, 4) = <<"%", "P", "D", "F">>

\* text.strip()
RECURSIVE LStrip(_)
LStrip(s) == IF s # <<>> /\ Head(s) \in SpaceChars THEN LStrip(Tail(s)) ELSE s
RECURSIVE RStrip(_)
RStrip(s) ==
    IF s # <<>> /\ s[Len(s)] \in SpaceChars THEN RStrip(SubSeq(s, 1, Len(s) - 1)) ELSE s
Strip(s) == RStrip(LStrip(s))

----------------------------------------------------------------------------
(* nodes.py: download_pdfs_node *)

\* what the collaborators did for one reference: session.get raised or answered with
\* status and content; open/write raised or not; PdfReader / extract_text raised or
\* gave the texts of the pages
Outcome(get, status, content, write, reader, pages) ==
    [get |-> get, status |-> status, content |-> content, write |-> write,
     reader |-> reader, pages |-> pages]

\* text = ""; for page in pdf_reader.pages: text += page.extract_text() + "\n"
RECURSIVE PagesText(_)
PagesText(pages) ==
    IF pages = <<>> THEN <<>> ELSE Head(pages) \o <<"\n">> \o PagesText(Tail(pages))

DownloadDir == <<"downloaded_files", "/">>

\* a variant that names the file after the display name as it is
PdfPath_KeepsName(bdns_code, doc_name) ==
    DownloadDir \o bdns_code \o <<"_">> \o doc_name \o <<".pdf">>

\* download_dir / f"{bdns_code}_{safe_name}.pdf"
PdfPath(bdns_code, doc_name) ==
    DownloadDir \o bdns_code \o <<"_">> \o clean_filename(doc_name) \o <<".pdf">>

\* a variant that takes every 200 answer for a PDF
Acquire_TrustsStatus(pdf_info, out, bdns_code) ==
    LET doc_name == pdf_info.name
        pdf_path == PdfPath(bdns_code, doc_name)
        text     == PagesText(out.pages)
    IN  IF out.get = "ok" /\ out.status = 200
           /\ out.write = "ok" /\ out.reader = "ok" /\ TruthySeq(Strip(text))
        THEN << [filename |-> doc_name, text |-> text, path |-> pdf_path] >>
        ELSE <<>>

\* a variant that appends an entry also when no text was extracted
Acquire_KeepsEmptyText(pdf_info, out, bdns_code) ==
    LET doc_name == pdf_info.name
        pdf_path == PdfPath(bdns_code, doc_name)
        text     == PagesText(out.pages)
    IN  IF out.get = "ok" /\ out.status = 200 /\ validate_pdf_content(out.content)
           /\ out.write = "ok" /\ out.reader = "ok"
        THEN << [filename |-> doc_name, text |-> text, path |-> pdf_path] >>
        ELSE <<>>

\* the body of the loop for one reference: the entries it appends to pdf_texts
Acquire(pdf_info, out, bdns_code) ==
    LET doc_name == pdf_info.name
        pdf_path == PdfPath(bdns_code, doc_name)
        text     == PagesText(out.pages)
    IN  IF out.get = "ok" /\ out.status = 200 /\ validate_pdf_content(out.content)
           /\ out.write = "ok" /\ out.reader = "ok" /\ TruthySeq(Strip(text))
        THEN << [filename |-> doc_name, text |-> text, path |-> pdf_path] >>
        ELSE <<>>

\* a variant that asks once more when session.get raised
RECURSIVE Requests_RetriesOnce(_, _)
Requests_RetriesOnce(pdf_urls, outs) ==
    IF pdf_urls = <<>> THEN <<>>
    ELSE (IF Head(outs).get = "raise" THEN <<Head(pdf_urls).url, Head(pdf_urls).url>>
                                      ELSE <<Head(pdf_urls).url>>)
         \o Requests_RetriesOnce(Tail(pdf_urls), Tail(outs))

\* the URLs session.get is called with, in the order of the calls: the loop calls it
\* once for each reference, whatever became of the references before it
RECURSIVE Requests(_, _)
Requests(pdf_urls, outs) ==
    IF pdf_urls = <<>> THEN <<>>
    ELSE <<Head(pdf_urls).url>> \o Requests(Tail(pdf_urls), Tail(outs))

\* a variant that puts each new entry in front of the earlier ones
RECURSIVE AcquireAll_Prepends(_, _, _, _)
AcquireAll_Prepends(pdf_urls, outs, bdns_code, acc) ==
    IF pdf_urls = <<>> THEN acc
    ELSE LET got == Acquire(Head(pdf_urls), Head(outs), bdns_code)
         IN  AcquireAll_Prepends(Tail(pdf_urls), Tail(outs), bdns_code,
                        [pdf_texts |-> got \o acc.pdf_texts,
                         successful_downloads |-> acc.successful_downloads + Len(got)])

\* the loop over pdf_urls: pdf_texts and successful_downloads after it
RECURSIVE AcquireAll(_, _, _, _)
AcquireAll(pdf_urls, outs, bdns_code, acc) ==
    IF pdf_urls = <<>> THEN acc
    ELSE LET got == Acquire(Head(pdf_urls), Head(outs), bdns_code)
         IN  AcquireAll(Tail(pdf_urls), Tail(outs), bdns_code,
                        [pdf_texts |-> acc.pdf_texts \o got,
                         successful_downloads |-> acc.successful_downloads + Len(got)])

\* the files the loop opens with 'wb' and writes, in the order it writes them: one
\* for each reference whose content is a PDF, unless open or write raised
RECURSIVE Writes(_, _, _)
Writes(pdf_urls, outs, bdns_code) ==
    IF pdf_urls = <<>> THEN <<>>
    ELSE (IF Head(outs).get = "ok" /\ Head(outs).status = 200
             /\ validate_pdf_content(Head(outs).content) /\ Head(outs).write = "ok"
          THEN << [path |-> PdfPath(bdns_code, Head(pdf_urls).name),
                   content |-> Head(outs).content] >>
          ELSE <<>>)
         \o Writes(Tail(pdf_urls), Tail(outs), bdns_code)

\* the download directory after the writes: open(pdf_path, 'wb') truncates, so each
\* path holds the bytes of the last write to it
Directory(writes) ==
    [ p \in { writes[i].path : i \in DOMAIN writes } |->
        writes[CHOOSE i \in DOMAIN writes :
                   /\ writes[i].path = p
                   /\ \A j \in DOMAIN writes : writes[j].path = p => j <= i].content ]

\* a variant that counts the references tried, not the texts kept
download_pdfs_node_CountsAttempts(st, mkdir, msg, outs) ==
    IF ~TruthySeq(st.pdf_urls)
    THEN [st EXCEPT !.pdf_texts = <<>>,
                    !.pdf_count = 0,
                    !.logs = @ \o << <<"No PDFs to download">> >>]
    ELSE IF mkdir = "raise"
    THEN [st EXCEPT !.error = Some(<<"Error in download process: ">> \o msg)]
    ELSE LET done == AcquireAll(st.pdf_urls, outs, st.bdns_code,
                                [pdf_texts |-> <<>>, successful_downloads |-> 0])
         IN  [st EXCEPT !.pdf_texts = done.pdf_texts,
                        !.pdf_count = Len(st.pdf_urls),
                        !.logs = @ \o << <<"Downloaded and processed ",
                                           ToString(Len(st.pdf_urls)), " PDFs">> >>]

\* mkdir: "ok" or "raise" (create_download_directory raised msg); outs: one Outcome
\* per reference
download_pdfs_node(st, mkdir, msg, outs) ==
    IF ~TruthySeq(st.pdf_urls)
    THEN [st EXCEPT !.pdf_texts = <<>>,
                    !.pdf_count = 0,
                    !.logs = @ \o << <<"No PDFs to download">> >>]
    ELSE IF mkdir = "raise"
    THEN [st EXCEPT !.error = Some(<<"Error in download process: ">> \o msg)]
    ELSE LET done == AcquireAll(st.pdf_urls, outs, st.bdns_code,
                                [pdf_texts |-> <<>>, successful_downloads |-> 0])
         IN  [st EXCEPT !.pdf_texts = done.pdf_texts,
                        !.pdf_count = done.successful_downloads,
                        !.logs = @ \o << <<"Downloaded and processed ",
                                           ToString(done.successful_downloads), " PDFs">> >>]

----------------------------------------------------------------------------
(* utils.py: extract_json_from_text.  A completion text is a sequence of  *)
(* chunks: "{", "}", ",", a key chunk ("detalles:"), the scalar chunk (a  *)
(* JSON string literal) and prose chunks.  The key "required:" inside a   *)
(* sub-record stands for all the required fields of that sub-record, each *)
(* with a value of the right type.                                        *)

KeyChunks == <<"identificacion:", "detalles:", "condiciones_economicas:",
               "plazos_procedimiento:", "required:", "nota:",
               "metadata:", "analysis_date:", "subsidy_code:", "used_pdf:", "pdf_count:",
               "model_used:", "version:", "token_usage:", "model_name:", "input_tokens:",
               "output_tokens:", "raw_response:">>
KeyNames  == <<"identificacion", "detalles", "condiciones_economicas",
               "plazos_procedimiento", "required", "nota",
               "metadata", "analysis_date", "subsidy_code", "used_pdf", "pdf_count",
               "model_used", "version", "token_usage", "model_name", "input_tokens",
               "output_tokens", "raw_response">>
IsKeyChunk(c) == \E i \in 1..Len(KeyChunks) : KeyChunks[i] = c
KeyName(c) == KeyNames[CHOOSE i \in 1..Len(KeyChunks) : KeyChunks[i] = c]
KeyChunk(name) == KeyChunks[CHOOSE i \in 1..Len(KeyNames) : KeyNames[i] = name]
ScalarChunk == "\"...\""

\* parsed JSON values: a string whose characters the model does not look at, an
\* object, and the scalars whose content it follows (a string as its chunks, an
\* int, a bool, null)
JStr == [t |-> "str", o |-> EmptyDict]
JObj(d) == [t |-> "obj", o |-> d]
JText(chunks) == [t |-> "text", o |-> chunks]
JInt(n) == [t |-> "int", o |-> <<n>>]
JBool(b) == [t |-> "bool", o |-> <<b>>]
JNull == [t |-> "null", o |-> <<>>]

\* the decimal digits of a non-negative int, and the int they spell
DigitChars == <<"0", "1", "2", "3", "4", "5", "6", "7", "8", "9">>
RECURSIVE IntToDigits(_)
IntToDigits(n) ==
    IF n < 10 THEN <<DigitChars[n + 1]>>
    ELSE IntToDigits(n \div 10) \o <<DigitChars[(n % 10) + 1]>>
DigitValue(c) == (CHOOSE i \in 1..Len(DigitChars) : DigitChars[i] = c) - 1
RECURSIVE DigitsToInt(_)
DigitsToInt(ds) ==
    IF ds = <<>> THEN 0
    ELSE 10 * DigitsToInt(SubSeq(ds, 1, Len(ds) - 1)) + DigitValue(ds[Len(ds)])
\* the number of digit chunks of t from position i on
RECURSIVE DigitRun(_, _)
DigitRun(t, i) == IF i <= Len(t) /\ t[i] \in Digits THEN 1 + DigitRun(t, i + 1) ELSE 0

\* inside a JSON string the chunks that hold a quote or a backslash are escaped
Escapable == {"\"", "\\", ScalarChunk} \cup {KeyChunks[i] : i \in 1..Len(KeyChunks)}
Escape(c) == IF c \in Escapable THEN "\\" \o c ELSE c
Unescape(x) ==
    IF \E c \in Escapable : "\\" \o c = x THEN CHOOSE c \in Escapable : "\\" \o c = x ELSE x
\* the position of the quote that closes the string opened before position i, 0 if none
RECURSIVE ClosingQuote(_, _)
ClosingQuote(t, i) ==
    IF i > Len(t) THEN 0 ELSE IF t[i] = "\"" THEN i ELSE ClosingQuote(t, i + 1)

ParseFail == [ok |-> FALSE, pos |-> 0, val |-> JStr]
Parsed(pos, val) == [ok |-> TRUE, pos |-> pos, val |-> val]

\* json.loads by recursive descent: the value starting at t[i], and where it ends
RECURSIVE ParseValue(_, _)
RECURSIVE ParseMembers(_, _, _)
ParseValue(t, i) ==
    IF i > Len(t) THEN ParseFail
    ELSE IF t[i] = ScalarChunk THEN Parsed(i + 1, JStr)
    ELSE IF t[i] = "null" THEN Parsed(i + 1, JNull)
    ELSE IF t[i] = "true" THEN Parsed(i + 1, JBool(TRUE))
    ELSE IF t[i] = "false" THEN Parsed(i + 1, JBool(FALSE))
    ELSE IF t[i] \in Digits
         THEN LET n == DigitRun(t, i)
              IN  Parsed(i + n, JInt(DigitsToInt(SubSeq(t, i, i + n - 1))))
    ELSE IF t[i] = "\""
         THEN LET j == ClosingQuote(t, i + 1)
              IN  IF j = 0 THEN ParseFail
                  ELSE Parsed(j + 1, JText([k \in 1..(j - i - 1) |-> Unescape(t[i + k])]))
    ELSE IF t[i] = "{"
         THEN IF i + 1 <= Len(t) /\ t[i + 1] = "}"
              THEN Parsed(i + 2, JObj(EmptyDict))
              ELSE ParseMembers(t, i + 1, EmptyDict)
    ELSE ParseFail
ParseMembers(t, i, acc) ==
    IF i > Len(t) \/ ~IsKeyChunk(t[i]) THEN ParseFail
    ELSE LET v == ParseValue(t, i + 1) IN
         IF ~v.ok \/ v.pos > Len(t) THEN ParseFail
         ELSE LET acc2 == Put(acc, KeyName(t[i]), v.val) IN
              IF t[v.pos] = "," THEN ParseMembers(t, v.pos + 1, acc2)
              ELSE IF t[v.pos] = "}" THEN Parsed(v.pos + 1, JObj(acc2))
              ELSE ParseFail

\* json.loads(s): Some(dict), or None for JSONDecodeError
JsonLoads(s) ==
    LET r == ParseValue(s, 1)
    IN  IF r.ok /\ r.pos = Len(s) + 1 /\ r.val.t = "obj" THEN Some(r.val.o) ELSE NoneV

\* re.search(r'\{.*\}', text, re.DOTALL): the span from the first "{" to the last "}"
HasJsonSpan(text) ==
    \E i, j \in 1..Len(text) : i < j /\ text[i] = "{" /\ text[j] = "}"
JsonSpan(text) ==
    LET first == CHOOSE i \in 1..Len(text) :
                     text[i] = "{" /\ \A k \in 1..(i - 1) : text[k] # "{"
        last  == CHOOSE j \in 1..Len(text) :
                     text[j] = "}" /\ \A k \in (j + 1)..Len(text) : text[k] # "}"
    IN  SubSeq(text, first, last)

extract_json_from_text(text) ==
    IF HasJsonSpan(text) THEN JsonLoads(JsonSpan(text)) ELSE NoneV

----------------------------------------------------------------------------
(* schemas.py: SubsidyAnalysisResult *)

SubRecords == {"identificacion", "detalles", "condiciones_economicas", "plazos_procedimiento"}

\* pydantic accepts a sub-record when it is a mapping holding the required fields
ValidSubRecord(v) ==
    v.t = "obj" /\ "required" \in DOMAIN v.o /\ v.o["required"].t \in {"str", "text"}

\* SubsidyAnalysisResult(**d) does not raise
Validates(d) == \A k \in SubRecords : k \in DOMAIN d /\ ValidSubRecord(d[k])

\* the model built from d: the declared fields only, metadata defaulting to {}
SubsidyAnalysisResult(d) ==
    [ identificacion         |-> [required |-> d["identificacion"].o["required"]],
      detalles               |-> [required |-> d["detalles"].o["required"]],
      condiciones_economicas |-> [required |-> d["condiciones_economicas"].o["required"]],
      plazos_procedimiento   |-> [required |-> d["plazos_procedimiento"].o["required"]],
      metadata               |-> EmptyDict ]

----------------------------------------------------------------------------
(* nodes.py: analyze_subsidy_node and save_results_node *)

\* what llm.invoke(messages) did: raised msg, or returned a response with this
\* content and the token_usage list
LlmRaised(msg) == [kind |-> "raise", msg |-> msg, text |-> <<>>, token_usage |-> <<>>]
LlmReturned(text, token_usage) ==
    [kind |-> "ok", msg |-> <<>>, text |-> text, token_usage |-> token_usage]

ModelName == "gpt-4o-mini"
\* datetime.now(), as isoformat() and as strftime("%Y%m%d_%H%M%S")
NowIso == "2024-05-17T10:30:00"
NowStamp == "20240517_103000"

\* "\n\n".join(f"=== DOCUMENT: {pdf['filename']} ===\n{pdf['text']}" for pdf in pdf_texts)
RECURSIVE CombinedPdfText(_)
CombinedPdfText(pdf_texts) ==
    IF pdf_texts = <<>> THEN <<>>
    ELSE <<"=== DOCUMENT: ">> \o Head(pdf_texts).filename \o <<" ===", "\n">>
         \o Head(pdf_texts).text
         \o (IF Tail(pdf_texts) = <<>> THEN <<>>
             ELSE <<"\n", "\n">> \o CombinedPdfText(Tail(pdf_texts)))

\* a variant that always formats the template with the document section
Messages_AlwaysWithPdf(st) ==
    LET combined_pdf_text == CombinedPdfText(st.pdf_texts)
    IN  << [role |-> "system", template |-> "SYSTEM_PROMPT",
            subsidy_data |-> EmptyDict, pdf_text |-> <<>>],
           [role |-> "human", template |-> "ANALYSIS_PROMPT_WITH_PDF",
            subsidy_data |-> st.subsidy_data, pdf_text |-> combined_pdf_text] >>

\* the messages handed to llm.invoke: the system prompt, then the analysis prompt
\* formatted from one of the two templates
Messages(st) ==
    LET combined_pdf_text == CombinedPdfText(st.pdf_texts)
    IN  << [role |-> "system", template |-> "SYSTEM_PROMPT",
            subsidy_data |-> EmptyDict, pdf_text |-> <<>>],
           IF TruthySeq(combined_pdf_text)
           THEN [role |-> "human", template |-> "ANALYSIS_PROMPT_WITH_PDF",
                 subsidy_data |-> st.subsidy_data, pdf_text |-> combined_pdf_text]
           ELSE [role |-> "human", template |-> "ANALYSIS_PROMPT_WITHOUT_PDF",
                 subsidy_data |-> st.subsidy_data, pdf_text |-> <<>>] >>

\* a variant that counts the document URLs instead of the extracted texts
Metadata_CountsUrls(st, token_usage) ==
    [ analysis_date |-> NowIso,
      subsidy_code  |-> st.bdns_code,
      used_pdf      |-> TruthySeq(st.pdf_urls),
      pdf_count     |-> Len(st.pdf_urls),
      model_used    |-> ModelName,
      version       |-> "3.0-langgraph",
      token_usage   |-> IF TruthySeq(token_usage) THEN Some(token_usage[1]) ELSE NoneV ]

Metadata(st, token_usage) ==
    [ analysis_date |-> NowIso,
      subsidy_code  |-> st.bdns_code,
      used_pdf      |-> TruthySeq(st.pdf_texts),
      pdf_count     |-> Len(st.pdf_texts),
      model_used    |-> ModelName,
      version       |-> "3.0-langgraph",
      token_usage   |-> IF TruthySeq(token_usage) THEN Some(token_usage[1]) ELSE NoneV ]

\* bool(d) of an Optional[dict]
TruthyDict(o) == o # NoneV /\ DOMAIN Val(o) # {}

\* a variant that keeps the parsed JSON in raw_analysis also when it validates
StoreAnalysis_KeepsRaw(st, analysis_text) ==
    LET analysis_json == extract_json_from_text(analysis_text)
    IN  IF TruthyDict(analysis_json)
        THEN IF Validates(Val(analysis_json))
             THEN [st EXCEPT !.analysis_result = Some(SubsidyAnalysisResult(Val(analysis_json))),
                             !.raw_analysis = analysis_json]
             ELSE [st EXCEPT !.raw_analysis = analysis_json]
        ELSE [st EXCEPT !.error = Some(<<"Could not extract valid JSON from LLM response">>),
                        !.raw_analysis = Some([raw_response |-> analysis_text])]

\* a variant that reports the failure without keeping the response text
StoreAnalysis_DropsRawResponse(st, analysis_text) ==
    LET analysis_json == extract_json_from_text(analysis_text)
    IN  IF TruthyDict(analysis_json)
        THEN IF Validates(Val(analysis_json))
             THEN [st EXCEPT !.analysis_result = Some(SubsidyAnalysisResult(Val(analysis_json)))]
             ELSE [st EXCEPT !.raw_analysis = analysis_json]
        ELSE [st EXCEPT !.error = Some(<<"Could not extract valid JSON from LLM response">>)]

\* the handling of the response text: structured result, raw JSON, or error
StoreAnalysis(st, analysis_text) ==
    LET analysis_json == extract_json_from_text(analysis_text)
    IN  IF TruthyDict(analysis_json)
        THEN IF Validates(Val(analysis_json))
             THEN [st EXCEPT !.analysis_result = Some(SubsidyAnalysisResult(Val(analysis_json)))]
             ELSE [st EXCEPT !.raw_analysis = analysis_json]
        ELSE [st EXCEPT !.error = Some(<<"Could not extract valid JSON from LLM response">>),
                        !.raw_analysis = Some([raw_response |-> analysis_text])]

\* a variant that calls llm.invoke a second time with the same messages
LlmCalls_Retries(st) == <<Messages(st), Messages(st)>>

\* the argument of each call of llm.invoke that analyze_subsidy_node makes
LlmCalls(st) == <<Messages(st)>>

\* a variant whose except clause returns the state without setting error
analyze_subsidy_node_SwallowsFailure(st, resp) ==
    IF resp.kind = "raise"
    THEN st
    ELSE
    LET st1 == StoreAnalysis(st, resp.text)
        metadata == Metadata(st, resp.token_usage)
        st2 == IF st1.analysis_result # NoneV
               THEN [st1 EXCEPT !.analysis_result =
                                    Some([Val(@) EXCEPT !.metadata = metadata])]
               ELSE IF TruthyDict(st1.raw_analysis)
               THEN [st1 EXCEPT !.raw_analysis = Some(Put(Val(@), "metadata", metadata))]
               ELSE st1
    IN  [st2 EXCEPT !.logs = @ \o << <<"LLM analysis completed">> >>]

analyze_subsidy_node(st, resp) ==
    IF resp.kind = "raise"
    THEN [st EXCEPT !.error = Some(<<"Error in LLM analysis: ">> \o resp.msg)]
    ELSE
    LET st1 == StoreAnalysis(st, resp.text)
        metadata == Metadata(st, resp.token_usage)
        st2 == IF st1.analysis_result # NoneV
               THEN [st1 EXCEPT !.analysis_result =
                                    Some([Val(@) EXCEPT !.metadata = metadata])]
               ELSE IF TruthyDict(st1.raw_analysis)
               THEN [st1 EXCEPT !.raw_analysis = Some(Put(Val(@), "metadata", metadata))]
               ELSE st1
    IN  [st2 EXCEPT !.logs = @ \o << <<"LLM analysis completed">> >>]

\* json.dump(save_data, f): the text written, as chunks (the indentation, which
\* json.load skips, left out)
RECURSIVE DumpValue(_)
RECURSIVE DumpMembers(_, _)

\* a variant that writes the scalars as str() prints them
DumpValue_PythonRepr(v) ==
    CASE v.t = "obj"  -> <<"{">> \o DumpMembers(v.o, DOMAIN v.o) \o <<"}">>
      [] v.t = "str"  -> <<ScalarChunk>>
      [] v.t = "text" -> <<"'">> \o [k \in 1..Len(v.o) |-> Escape(v.o[k])] \o <<"'">>
      [] v.t = "int"  -> IntToDigits(v.o[1])
      [] v.t = "bool" -> <<IF v.o[1] THEN "True" ELSE "False">>
      [] v.t = "null" -> <<"None">>

DumpValue(v) ==
    CASE v.t = "obj"  -> <<"{">> \o DumpMembers(v.o, DOMAIN v.o) \o <<"}">>
      [] v.t = "str"  -> <<ScalarChunk>>
      [] v.t = "text" -> <<"\"">> \o [k \in 1..Len(v.o) |-> Escape(v.o[k])] \o <<"\"">>
      [] v.t = "int"  -> IntToDigits(v.o[1])
      [] v.t = "bool" -> <<IF v.o[1] THEN "true" ELSE "false">>
      [] v.t = "null" -> <<"null">>
DumpMembers(d, keys) ==
    IF keys = {} THEN <<>>
    ELSE LET k == CHOOSE x \in keys : TRUE
         IN  <<KeyChunk(k)>> \o DumpValue(d[k])
             \o (IF keys \ {k} = {} THEN <<>> ELSE <<",">> \o DumpMembers(d, keys \ {k}))

\* the metadata mapping as JSON values
MetadataValue(m) ==
    JObj([ analysis_date |-> JText(<<m.analysis_date>>),
           subsidy_code  |-> JText(m.subsidy_code),
           used_pdf      |-> JBool(m.used_pdf),
           pdf_count     |-> JInt(m.pdf_count),
           model_used    |-> JText(<<m.model_used>>),
           version       |-> JText(<<m.version>>),
           token_usage   |->
               IF m.token_usage = NoneV THEN JNull
               ELSE JObj([ model_name    |-> JText(<<Val(m.token_usage).model_name>>),
                           input_tokens  |-> JInt(Val(m.token_usage).input_tokens),
                           output_tokens |-> JInt(Val(m.token_usage).output_tokens) ]) ])

\* analysis_result.model_dump(): the nested models as mappings, the metadata with them
model_dump(analysis_result) ==
    JObj([ identificacion         |-> JObj(analysis_result.identificacion),
           detalles               |-> JObj(analysis_result.detalles),
           condiciones_economicas |-> JObj(analysis_result.condiciones_economicas),
           plazos_procedimiento   |-> JObj(analysis_result.plazos_procedimiento),
           metadata               |-> MetadataValue(analysis_result.metadata) ])

\* raw_analysis as JSON values: the parsed object, or the response text, with the metadata
RawValue(raw_analysis) ==
    JObj([k \in DOMAIN raw_analysis |->
             IF k = "metadata" THEN MetadataValue(raw_analysis[k])
             ELSE IF k = "raw_response" THEN JText(raw_analysis[k])
             ELSE raw_analysis[k]])

\* the path of the artifact save_results_node writes
ResultPath(st) ==
    DownloadDir \o <<"LangGraph_Analysis_">> \o st.bdns_code \o <<"_", NowStamp>>
    \o (IF st.pdf_count > 0 THEN <<"_with_", ToString(st.pdf_count), "_PDFs">>
        ELSE <<"_JSON_only">>)
    \o <<".json">>

\* a variant that does not look at the code
NothingToSave_IgnoresCode(st) ==
    ~(st.analysis_result # NoneV \/ TruthyDict(st.raw_analysis))

\* a variant that also saves nothing once error is set
NothingToSave_WhenError(st) ==
    \/ ~(st.analysis_result # NoneV \/ TruthyDict(st.raw_analysis))
    \/ ~TruthySeq(st.bdns_code)
    \/ TruthyOpt(st.error)

\* if not (analysis_result or raw_analysis) or not bdns_code
NothingToSave(st) ==
    ~(st.analysis_result # NoneV \/ TruthyDict(st.raw_analysis)) \/ ~TruthySeq(st.bdns_code)

\* the mapping save_results_node serializes
SaveData(st) ==
    IF st.analysis_result # NoneV THEN model_dump(Val(st.analysis_result))
    ELSE RawValue(Val(st.raw_analysis))

\* the files save_results_node writes; io: "ok", or "raise" (mkdir or open raised)
SavedFiles(st, io) ==
    IF NothingToSave(st) \/ io = "raise" THEN <<>>
    ELSE << [path |-> ResultPath(st), text |-> DumpValue(SaveData(st))] >>

\* a variant that drops the extracted texts once the file is written
save_results_node_ClearsTexts(st, io, msg) ==
    IF NothingToSave(st)
    THEN st
    ELSE IF io = "raise"
    THEN [st EXCEPT !.error = Some(<<"Error saving results: ">> \o msg)]
    ELSE [st EXCEPT !.pdf_texts = <<>>,
                    !.logs = @ \o << <<"Results saved to ">> \o ResultPath(st) >>]

\* a variant that starts the logs again with its own entry
save_results_node_ResetsLogs(st, io, msg) ==
    IF NothingToSave(st)
    THEN st
    ELSE IF io = "raise"
    THEN [st EXCEPT !.error = Some(<<"Error saving results: ">> \o msg)]
    ELSE [st EXCEPT !.logs = << <<"Results saved to ">> \o ResultPath(st) >>]

\* io: "ok", or "raise" (mkdir or open raised msg)
\* a variant that also stamps the run's processing_time when it has saved
save_results_node_TimesRun(st, io, msg) ==
    IF NothingToSave(st)
    THEN st
    ELSE IF io = "raise"
    THEN [st EXCEPT !.error = Some(<<"Error saving results: ">> \o msg)]
    ELSE [st EXCEPT !.logs = @ \o << <<"Results saved to ">> \o ResultPath(st) >>,
                    !.processing_time = Some(0)]

save_results_node(st, io, msg) ==
    IF NothingToSave(st)
    THEN st
    ELSE IF io = "raise"
    THEN [st EXCEPT !.error = Some(<<"Error saving results: ">> \o msg)]
    ELSE [st EXCEPT !.logs = @ \o << <<"Results saved to ">> \o ResultPath(st) >>]

----------------------------------------------------------------------------
(* graph.py: SubsidyAnalyzerGraph *)

Nodes == <<"extract_bdns", "fetch_subsidy_info", "find_pdf_urls", "download_pdfs",
           "analyze_subsidy", "save_results">>

\* a variant whose edge out of find_pdf_urls leads past download_pdfs
NextNode_SkipsDownload(node) ==
    CASE node = "extract_bdns"       -> "fetch_subsidy_info"
      [] node = "fetch_subsidy_info" -> "find_pdf_urls"
      [] node = "find_pdf_urls"      -> "analyze_subsidy"
      [] node = "download_pdfs"      -> "analyze_subsidy"
      [] node = "analyze_subsidy"    -> "save_results"
      [] node = "save_results"       -> "END"

\* a variant in which no edge leaves analyze_subsidy
NextNode_NoEdgeToSave(node) ==
    CASE node = "extract_bdns"       -> "fetch_subsidy_info"
      [] node = "fetch_subsidy_info" -> "find_pdf_urls"
      [] node = "find_pdf_urls"      -> "download_pdfs"
      [] node = "download_pdfs"      -> "analyze_subsidy"
      [] node = "analyze_subsidy"    -> "nowhere"
      [] node = "save_results"       -> "END"

\* the edges _build_workflow adds: the node that follows node, "END" after the last
NextNode(node) ==
    CASE node = "extract_bdns"       -> "fetch_subsidy_info"
      [] node = "fetch_subsidy_info" -> "find_pdf_urls"
      [] node = "find_pdf_urls"      -> "download_pdfs"
      [] node = "download_pdfs"      -> "analyze_subsidy"
      [] node = "analyze_subsidy"    -> "save_results"
      [] node = "save_results"       -> "END"

\* the mapping returned before the workflow is started
PrecheckFailure(error) ==
    [ success         |-> FALSE,
      analysis_result |-> NoneV,
      raw_analysis    |-> NoneV,
      processing_time |-> 0,
      pdf_count       |-> 0,
      logs            |-> <<>>,
      error           |-> Some(error) ]

\* the mapping returned after workflow.invoke returned final_state
PipelineResult(final_state, processing_time) ==
    [ success         |-> ~TruthyOpt(final_state.error),
      analysis_result |-> final_state.analysis_result,
      raw_analysis    |-> final_state.raw_analysis,
      processing_time |-> processing_time,
      pdf_count       |-> final_state.pdf_count,
      logs            |-> final_state.logs,
      error           |-> final_state.error ]

\* a variant that carries the logs of the nodes that had run
ExceptionResult_KeepsLogs(msg, processing_time) ==
    [ success         |-> FALSE,
      analysis_result |-> NoneV,
      raw_analysis    |-> NoneV,
      processing_time |-> processing_time,
      pdf_count       |-> 0,
      logs            |-> state.logs \o << <<"Workflow failed: ">> \o msg >>,
      error           |-> Some(msg) ]

\* the mapping returned when workflow.invoke raised e, msg being str(e)
ExceptionResult(msg, processing_time) ==
    [ success         |-> FALSE,
      analysis_result |-> NoneV,
      raw_analysis    |-> NoneV,
      processing_time |-> processing_time,
      pdf_count       |-> 0,
      logs            |-> << <<"Workflow failed: ">> \o msg >>,
      error           |-> Some(msg) ]

Call(method, bdns_code, url, subsidy_data) ==
    [method |-> method, bdns_code |-> bdns_code, url |-> url, subsidy_data |-> subsidy_data]
NoCall == Call("none", <<>>, <<>>, EmptyDict)

\* the entry point returns mapping without having started the workflow
ReturnEarly(mapping) ==
    /\ result' = Some(mapping)
    /\ path' = "precheck"
    /\ pc' = "done"
    /\ UNCHANGED <<state, trace, completion, api_call, raised, saved, stageVars, pairVars, utilVars>>

\* the entry point hands initial_state to workflow.invoke
StartWorkflow(initial_state) ==
    /\ state' = initial_state
    /\ pc' = Nodes[1]
    /\ UNCHANGED <<result, trace, path, completion, api_call, raised, saved, stageVars, pairVars, utilVars>>

\* what an entry point does before workflow.invoke: it returns mapping at once, or
\* it builds initial_state
EntryReturns(mapping) == [kind |-> "return", mapping |-> mapping]
EntryInvokes(initial_state) == [kind |-> "invoke", initial_state |-> initial_state]

\* analyze_from_bdns up to workflow.invoke: a new dict and the registry's URL of the code
InitialFromBdns(bdns_code) ==
    EntryInvokes(SubsidyState(bdns_code, Some(ConvocatoriasUrl \o bdns_code), EmptyDict))

\* a variant that keeps the caller's URL as source_url
InitialFromUrl_KeepsUrl(url) ==
    LET bdns_code == extract_bdns_from_url(url)
    IN  IF ~TruthyOpt(bdns_code)
        THEN EntryReturns(PrecheckFailure(<<"Could not extract BDNS code from URL: ">> \o url))
        ELSE EntryInvokes(SubsidyState(Val(bdns_code), Some(url), EmptyDict))

\* analyze_from_url: the code is extracted and handed to analyze_from_bdns
InitialFromUrl(url) ==
    LET bdns_code == extract_bdns_from_url(url)
    IN  IF ~TruthyOpt(bdns_code)
        THEN EntryReturns(PrecheckFailure(<<"Could not extract BDNS code from URL: ">> \o url))
        ELSE InitialFromBdns(Val(bdns_code))

\* a variant that prefers the code in the data bag's source_url to its code fields
InitialFromData_UrlFirst(subsidy_data) ==
    LET source_url == Get(subsidy_data, "source_url")
        fromUrl == IF TruthyOpt(source_url) THEN extract_bdns_from_url(Val(source_url)) ELSE NoneV
        bdns_code == OrOpt(fromUrl,
                           OrOpt(Get(subsidy_data, "codigo_bdns"), Get(subsidy_data, "bdns_code")))
    IN  IF ~TruthyOpt(bdns_code) /\ ~TruthyOpt(source_url)
        THEN EntryReturns(PrecheckFailure(
                 <<"Either bdns_code or source_url must be provided in subsidy_data">>))
        ELSE EntryInvokes(SubsidyState(
                 IF TruthyOpt(bdns_code) THEN Val(bdns_code) ELSE <<>>,
                 source_url, subsidy_data))

\* analyze_from_data up to workflow.invoke: the state holds the caller's dict itself
InitialFromData(subsidy_data) ==
    LET bdns_code == OrOpt(Get(subsidy_data, "codigo_bdns"), Get(subsidy_data, "bdns_code"))
        source_url == Get(subsidy_data, "source_url")
    IN  IF ~TruthyOpt(bdns_code) /\ ~TruthyOpt(source_url)
        THEN EntryReturns(PrecheckFailure(
                 <<"Either bdns_code or source_url must be provided in subsidy_data">>))
        ELSE EntryInvokes(SubsidyState(
                 IF TruthyOpt(bdns_code) THEN Val(bdns_code) ELSE <<>>,
                 source_url, subsidy_data))

Enter(outcome) ==
    IF outcome.kind = "return"
    THEN ReturnEarly(outcome.mapping)
    ELSE StartWorkflow(outcome.initial_state)

analyze_from_bdns(bdns_code) ==
    /\ pc = "idle"
    /\ Enter(InitialFromBdns(bdns_code))

\* a variant that starts the workflow whatever the URL
analyze_from_url_NoPrecheck(url) ==
    /\ pc = "idle"
    /\ LET bdns_code == extract_bdns_from_url(url)
       IN  analyze_from_bdns(IF TruthyOpt(bdns_code) THEN Val(bdns_code) ELSE <<>>)

analyze_from_url(url) ==
    /\ pc = "idle"
    /\ Enter(InitialFromUrl(url))

analyze_from_data(subsidy_data) ==
    /\ pc = "idle"
    /\ Enter(InitialFromData(subsidy_data))

----------------------------------------------------------------------------
(* The inputs of a run and the answers of its collaborators *)

\* the longest documentos list
MaxDocs == 2

Code845 == <<"8", "4", "5">>
Code77  == <<"7", "7">>

BdnsCodes == { <<>>, Code845 }

Urls == { ConvocatoriasUrl \o Code845,
          <<"https://example.org", "/", "a", "y", "u", "d", "a", "s">>,
          <<>> }

\* document descriptors: a PDF by type, a PDF by name only, a PDF without id
BasesPdf == JObj([tipo |-> <<"P", "D", "F">>,
                  nombreFic |-> <<"B", "a", "s", "e", "s", ".", "p", "d", "f">>,
                  id |-> <<"7">>])
AnexoPdf == JObj([nombre |-> <<"a", "n", "e", "x", "o", ".", "P", "D", "F">>, id |-> <<"8">>])
NoIdPdf  == JObj([tipo |-> <<"P", "D", "F">>, name |-> <<"n", "o", "-", "i", "d">>])
Descriptors == {BasesPdf, AnexoPdf, NoIdPdf}

RECURSIVE SeqsUpTo(_, _)
SeqsUpTo(S, n) ==
    IF n = 0 THEN { <<>> }
    ELSE LET shorter == SeqsUpTo(S, n - 1)
         IN  shorter \cup { Append(q, x) : q \in shorter, x \in S }

DocLists == SeqsUpTo(Descriptors, MaxDocs)

\* the dict holding the fields whose Optional value is present
DictOf(fields) ==
    [k \in {f[1] : f \in {g \in fields : g[2] # NoneV}} |->
        Val((CHOOSE f \in fields : f[1] = k)[2])]

DataBags ==
    { DictOf({<<"codigo_bdns", a>>, <<"bdns_code", b>>, <<"source_url", c>>, <<"documentos", d>>}) :
        a \in {NoneV, Some(<<>>), Some(Code845)},
        b \in {NoneV, Some(Code77)},
        c \in {NoneV, Some(ConvocatoriasUrl \o Code77), Some(<<"https://example.org", "/">>)},
        d \in {NoneV, Some(<<BasesPdf>>)} }

\* a documentos list with a string in the place of a descriptor
MalformedBody == [documentos |-> <<BasesPdf, JStr>>]

ApiBodies == {EmptyDict, MalformedBody} \cup { [documentos |-> l] : l \in DocLists }

ApiResponses ==
    { ApiRaised(m) : m \in ExcMessages }
    \cup { ApiResponse(404, NoneV, <<>>), ApiResponse(200, NoneV, <<"Expecting value">>) }
    \cup { ApiResponse(200, Some(b), <<>>) : b \in ApiBodies }

PdfBytes  == <<"%", "P", "D", "F", "-", "1", ".", "4">>
HtmlBytes == <<"<", "h", "t", "m", "l", ">">>
Outcomes ==
    { Outcome("raise", 0, <<>>, "ok", "ok", <<>>),
      Outcome("ok", 404, <<>>, "ok", "ok", <<>>),
      Outcome("ok", 200, HtmlBytes, "ok", "ok", <<>>),
      Outcome("ok", 200, PdfBytes, "raise", "ok", <<>>),
      Outcome("ok", 200, PdfBytes, "ok", "raise", <<>>),
      Outcome("ok", 200, PdfBytes, "ok", "ok", << <<" ">>, <<>> >>),
      Outcome("ok", 200, PdfBytes, "ok", "ok", << <<"t", "e", "x", "t">> >>) }

TokenUsage == << [model_name |-> ModelName, input_tokens |-> 120, output_tokens |-> 40] >>

FullSubRecord == <<"{", "required:", ScalarChunk, "}">>
FullJson ==
    <<"{", "identificacion:">> \o FullSubRecord
    \o <<",", "detalles:">> \o FullSubRecord
    \o <<",", "condiciones_economicas:">> \o FullSubRecord
    \o <<",", "plazos_procedimiento:">> \o FullSubRecord \o <<"}">>
\* no plazos_procedimiento
PartialJson ==
    <<"{", "identificacion:">> \o FullSubRecord
    \o <<",", "detalles:">> \o FullSubRecord
    \o <<",", "condiciones_economicas:">> \o FullSubRecord \o <<"}">>
\* detalles lacks its required fields
HollowJson ==
    <<"{", "identificacion:">> \o FullSubRecord
    \o <<",", "detalles:", "{", "}">>
    \o <<",", "condiciones_economicas:">> \o FullSubRecord
    \o <<",", "plazos_procedimiento:">> \o FullSubRecord \o <<"}">>

LlmTexts ==
    { <<>>,
      <<"No puedo analizar esta convocatoria.">>,
      FullJson,
      <<"here is the result: ">> \o FullJson \o <<" thanks">>,
      PartialJson,
      HollowJson,
      <<"{", "}">>,
      <<"{", "nota:", "}">>,
      <<"}", " y ", "{">>,
      FullJson \o <<" (vease ", "}", ")">> }

LlmResponses ==
    { LlmRaised(m) : m \in ExcMessages } \cup { LlmReturned(t, TokenUsage) : t \in LlmTexts }

\* time.time() - start_time: the duration the entry point measures
Elapsed == {2}

----------------------------------------------------------------------------
(* The run: one call of an entry point *)

NoCompletion == [kind |-> "none", text |-> <<>>, messages |-> <<>>, calls |-> <<>>]

Init ==
    /\ pc = "idle"
    /\ entry = NoCall
    /\ state = SubsidyState(<<>>, NoneV, EmptyDict)
    /\ result = NoneV
    /\ trace = <<>>
    /\ path = "none"
    /\ completion = NoCompletion
    /\ api_call = NoneV
    /\ raised = NoneV
    /\ saved = <<>>
    /\ downloads = NoneV
    /\ runs = <<>>
    /\ heap = EmptyDict
    /\ applied = NoneV

CallFromBdns ==
    \E bdns_code \in BdnsCodes :
        /\ analyze_from_bdns(bdns_code)
        /\ entry' = Call("analyze_from_bdns", bdns_code, <<>>, EmptyDict)

CallFromUrl ==
    \E url \in Urls :
        /\ analyze_from_url(url)
        /\ entry' = Call("analyze_from_url", <<>>, url, EmptyDict)

CallFromData ==
    \E subsidy_data \in DataBags :
        /\ analyze_from_data(subsidy_data)
        /\ entry' = Call("analyze_from_data", <<>>, <<>>, subsidy_data)

\* the compiled graph ran node and follows its edge
Advance(node) ==
    /\ pc = node
    /\ pc' = NextNode(node)
    /\ trace' = Append(trace, node)
    /\ UNCHANGED <<entry, result, path, raised, stageVars, pairVars, utilVars>>

ExtractBdns ==
    /\ Advance("extract_bdns")
    /\ state' = extract_bdns_node(state)
    /\ UNCHANGED <<completion, api_call, saved>>

\* the registry answers the request the node makes, when it makes one
FetchSubsidyInfo ==
    /\ Advance("fetch_subsidy_info")
    /\ \E resp \in IF RegistryRequest(state) # NoneV THEN ApiResponses ELSE {ApiRaised(<<>>)} :
           /\ state' = fetch_subsidy_info_node(state, resp)
           /\ api_call' = IF RegistryRequest(state) # NoneV THEN Some(resp) ELSE NoneV
    /\ UNCHANGED <<completion, saved>>

FindPdfUrls ==
    /\ Advance("find_pdf_urls")
    /\ state' = find_pdf_urls_node(state)
    /\ UNCHANGED <<completion, api_call, saved>>

DownloadPdfs ==
    /\ Advance("download_pdfs")
    /\ \/ \E outs \in [1..Len(state.pdf_urls) -> Outcomes] :
              state' = download_pdfs_node(state, "ok", <<>>, outs)
       \/ /\ TruthySeq(state.pdf_urls)
          /\ \E msg \in ExcMessages :
                 state' = download_pdfs_node(state, "raise", msg, <<>>)
    /\ UNCHANGED <<completion, api_call, saved>>

AnalyzeSubsidy ==
    /\ Advance("analyze_subsidy")
    /\ \E resp \in LlmResponses :
           /\ state' = analyze_subsidy_node(state, resp)
           /\ completion' = [kind |-> IF resp.kind = "raise" THEN "raised" ELSE "text",
                             text |-> resp.text,
                             messages |-> Messages(state),
                             calls |-> completion.calls \o LlmCalls(state)]
    /\ UNCHANGED <<api_call, saved>>

\* nothing is written without a result and a code
SaveResults ==
    /\ Advance("save_results")
    /\ \/ /\ ~NothingToSave(state)
          /\ \E msg \in ExcMessages : state' = save_results_node(state, "raise", msg)
          /\ saved' = saved \o SavedFiles(state, "raise")
       \/ /\ state' = save_results_node(state, "ok", <<>>)
          /\ saved' = saved \o SavedFiles(state, "ok")
    /\ UNCHANGED <<completion, api_call>>

\* workflow.invoke returned final_state: the entry point times the run and returns
Return ==
    /\ pc = "END"
    /\ \E processing_time \in Elapsed :
           /\ state' = [state EXCEPT !.processing_time = Some(processing_time)]
           /\ result' = Some(PipelineResult(state', processing_time))
    /\ path' = "pipeline"
    /\ pc' = "done"
    /\ UNCHANGED <<entry, trace, completion, api_call, raised, saved, stageVars, pairVars, utilVars>>

\* workflow.invoke raised: the entry point's except clause returns
InvokeRaises ==
    /\ pc \in {Nodes[i] : i \in 1..Len(Nodes)} \cup {"END"}
    /\ \E msg \in ExcMessages, processing_time \in Elapsed :
           /\ result' = Some(ExceptionResult(msg, processing_time))
           /\ raised' = Some(msg)
    /\ path' = "exception"
    /\ pc' = "done"
    /\ UNCHANGED <<entry, state, trace, completion, api_call, saved, stageVars, pairVars, utilVars>>

Next ==
    \/ CallFromBdns
    \/ CallFromUrl
    \/ CallFromData
    \/ ExtractBdns
    \/ FetchSubsidyInfo
    \/ FindPdfUrls
    \/ DownloadPdfs
    \/ AnalyzeSubsidy
    \/ SaveResults
    \/ Return
    \/ InvokeRaises

Spec == Init /\ [][Next]_vars

\* a step of a call that has been made and in which workflow.invoke does not
\* raise: a node of the compiled graph runs, or the entry point returns
RunStep ==
    \/ ExtractBdns
    \/ FetchSubsidyInfo
    \/ FindPdfUrls
    \/ DownloadPdfs
    \/ AnalyzeSubsidy
    \/ SaveResults
    \/ Return

----------------------------------------------------------------------------
(* One node on its own: find_pdf_urls_node applied, and applied again, to a *)
(* RunState as fetch_subsidy_info_node leaves it, then download_pdfs_node   *)
(* with a record of what its collaborators did.                             *)

\* how often find_pdf_urls_node is applied to one state
MaxLocatorRuns == 2

EmptyIdPdf == JObj([tipo |-> <<"P", "D", "F">>, nombre |-> <<"b", ".", "p", "d", "f">>,
                    id |-> <<>>])
UnnamedPdf == JObj([type |-> <<"P", "D", "F">>, id |-> <<"9">>])
SecondName == JObj([nombreFic |-> <<>>, nombre |-> <<"d", "o", "s", ".", "p", "d", "f">>,
                    name |-> <<"x">>, id |-> <<"6">>])
WordDoc    == JObj([tipo |-> <<"D", "O", "C">>, nombreFic |-> <<"n", "o", "t", "a", "s">>,
                    id |-> <<"5">>])
LocatorDescriptors == Descriptors \cup {EmptyIdPdf, UnnamedPdf, SecondName, WordDoc, JStr}

LocatorBodies ==
    {EmptyDict} \cup { [documentos |-> l] : l \in SeqsUpTo(LocatorDescriptors, MaxDocs) }

\* the RunState find_pdf_urls_node is handed: after a registry answer of 200 to a
\* call by code, or after a call with a data bag from which no code was derived
LocatorStates ==
    { fetch_subsidy_info_node(
          extract_bdns_node(SubsidyState(Code845, Some(ConvocatoriasUrl \o Code845), EmptyDict)),
          ApiResponse(200, Some(body), <<>>)) : body \in LocatorBodies }
    \cup
    { fetch_subsidy_info_node(
          extract_bdns_node(SubsidyState(<<>>, Some(<<"https://example.org", "/">>),
                                         Put(body, "source_url", <<"https://example.org", "/">>))),
          ApiRaised(<<>>)) : body \in LocatorBodies }

\* bytes PyPDF2 reads although they do not begin with the signature
PaddedPdfBytes == <<" ">> \o PdfBytes
\* also: a PDF with text whose copy could not be written to the download directory
StageOutcomes ==
    Outcomes \cup { Outcome("ok", 200, PaddedPdfBytes, "ok", "ok", << <<"t", "e", "x", "t">> >>),
                    Outcome("ok", 200, PdfBytes, "raise", "ok", << <<"t", "e", "x", "t">> >>) }

StageInit ==
    /\ pc = "find_pdf_urls"
    /\ state \in LocatorStates
    /\ entry = NoCall
    /\ result = NoneV
    /\ trace = <<>>
    /\ path = "none"
    /\ completion = NoCompletion
    /\ api_call = NoneV
    /\ raised = NoneV
    /\ saved = <<>>
    /\ downloads = NoneV
    /\ runs = <<>>
    /\ heap = EmptyDict
    /\ applied = NoneV

StageLocate ==
    /\ pc \in {"find_pdf_urls", "download_pdfs"}
    /\ Len(trace) < MaxLocatorRuns
    /\ state' = find_pdf_urls_node(state)
    /\ trace' = Append(trace, "find_pdf_urls")
    /\ pc' = NextNode("find_pdf_urls")
    /\ UNCHANGED <<entry, result, path, completion, api_call, raised, saved, downloads, pairVars, utilVars>>

StageAcquire ==
    /\ pc = "download_pdfs"
    /\ \/ \E outs \in [1..Len(state.pdf_urls) -> StageOutcomes] :
              /\ state' = download_pdfs_node(state, "ok", <<>>, outs)
              /\ downloads' = Some([mkdir |-> "ok", outs |-> outs,
                                     gets |-> Requests(state.pdf_urls, outs)])
       \/ /\ TruthySeq(state.pdf_urls)
          /\ \E msg \in ExcMessages :
                 /\ state' = download_pdfs_node(state, "raise", msg, <<>>)
                 /\ downloads' = Some([mkdir |-> "raise", outs |-> <<>>, gets |-> <<>>])
    /\ trace' = Append(trace, "download_pdfs")
    /\ pc' = NextNode("download_pdfs")
    /\ UNCHANGED <<entry, result, path, completion, api_call, raised, saved, pairVars, utilVars>>

StageNext == StageLocate \/ StageAcquire

StageSpec == StageInit /\ [][StageNext]_vars

----------------------------------------------------------------------------
(* Two calls on one analyzer, interleaved node by node.  A dict is an       *)
(* object: the subsidy_data field of a RunState holds the address of the    *)
(* dict, heap the dict at each address.  The compiled graph hands the       *)
(* objects of the input state to the nodes as they are.                     *)

RunIds == {1, 2}

\* the dict the caller passes to analyze_from_data is at address CallerDict; the dict
\* analyze_from_bdns creates for call r is at address r
CallerDict == 0

PairBags ==
    { [codigo_bdns |-> Code845],
      [codigo_bdns |-> Code845, documentos |-> <<AnexoPdf>>] }

PairUrls ==
    { ConvocatoriasUrl \o Code845,
      <<"https://example.org", "/">> \o Code845,
      <<"https://example.org", "/", "a", "y", "u", "d", "a", "s">> }

\* analyze_from_data is given the dict at CallerDict
PairCalls ==
    { Call("analyze_from_bdns", Code845, <<>>, EmptyDict),
      Call("analyze_from_data", <<>>, <<>>, EmptyDict) }
    \cup { Call("analyze_from_url", <<>>, url, EmptyDict) : url \in PairUrls }

\* the answers the collaborators give to one call: the registry, the download of
\* each reference, the model
PairScripts ==
    [ api : { ApiResponse(404, NoneV, <<>>),
              ApiResponse(200, Some(EmptyDict), <<>>),
              ApiResponse(200, Some([documentos |-> <<BasesPdf>>]), <<>>) },
      out : { Outcome("ok", 200, HtmlBytes, "ok", "ok", <<>>),
              Outcome("ok", 200, PdfBytes, "ok", "ok", << <<"t", "e", "x", "t">> >>) },
      llm : { LlmReturned(FullJson, TokenUsage) } ]

NotCalled ==
    [ pc     |-> "idle",
      call   |-> NoCall,
      script |-> CHOOSE script \in PairScripts : TRUE,
      state  |-> SubsidyState(<<>>, NoneV, CallerDict),
      hist   |-> <<>>,
      result |-> NoneV ]

\* what the entry point of call does before workflow.invoke
EntryOf(call) ==
    CASE call.method = "analyze_from_bdns" -> InitialFromBdns(call.bdns_code)
      [] call.method = "analyze_from_url"  -> InitialFromUrl(call.url)
      [] call.method = "analyze_from_data" -> InitialFromData(call.subsidy_data)

\* the node function of node, applied to st with the answers of script
RunNode(node, st, script) ==
    CASE node = "extract_bdns"       -> extract_bdns_node(st)
      [] node = "fetch_subsidy_info" -> fetch_subsidy_info_node(st, script.api)
      [] node = "find_pdf_urls"      -> find_pdf_urls_node(st)
      [] node = "download_pdfs"      ->
             download_pdfs_node(st, "ok", <<>>, [i \in 1..Len(st.pdf_urls) |-> script.out])
      [] node = "analyze_subsidy"    -> analyze_subsidy_node(st, script.llm)
      [] node = "save_results"       -> save_results_node(st, "ok", <<>>)

\* the states workflow.invoke goes through from node on, no other call running
RECURSIVE RunFrom(_, _, _)
RunFrom(node, st, script) ==
    IF node = "END" THEN <<>>
    ELSE LET after == RunNode(node, st, script)
         IN  <<after>> \o RunFrom(NextNode(node), after, script)

\* the RunState of call r, its subsidy_data read through the address
View(r) == [runs[r].state EXCEPT !.subsidy_data = heap[@]]

PairInit ==
    /\ pc = "idle"
    /\ entry = NoCall
    /\ state = SubsidyState(<<>>, NoneV, EmptyDict)
    /\ result = NoneV
    /\ trace = <<>>
    /\ path = "none"
    /\ completion = NoCompletion
    /\ api_call = NoneV
    /\ raised = NoneV
    /\ saved = <<>>
    /\ downloads = NoneV
    /\ runs = [r \in RunIds |-> NotCalled]
    /\ \E bag \in PairBags :
           heap = [a \in {CallerDict} \cup RunIds |-> IF a = CallerDict THEN bag ELSE EmptyDict]
    /\ applied = NoneV

\* an entry point is called: it returns at once or hands its initial state to
\* workflow.invoke
PairCall(r) ==
    /\ runs[r].pc = "idle"
    /\ \E c \in PairCalls, script \in PairScripts :
           LET byData  == c.method = "analyze_from_data"
               call    == IF byData THEN [c EXCEPT !.subsidy_data = heap[CallerDict]] ELSE c
               outcome == EntryOf(call)
               address == IF byData THEN CallerDict ELSE r
           IN  IF outcome.kind = "return"
               THEN /\ runs' = [runs EXCEPT ![r] = [@ EXCEPT !.pc = "done",
                                                             !.call = call,
                                                             !.script = script,
                                                             !.result = Some(outcome.mapping)]]
                    /\ heap' = heap
               ELSE /\ runs' = [runs EXCEPT ![r] =
                                   [@ EXCEPT !.pc = Nodes[1],
                                             !.call = call,
                                             !.script = script,
                                             !.state = [outcome.initial_state
                                                           EXCEPT !.subsidy_data = address]]]
                    /\ heap' = [heap EXCEPT ![address] = outcome.initial_state.subsidy_data]
    /\ UNCHANGED <<runVars, stageVars, utilVars>>

\* the compiled graph runs the next node of call r
PairStep(r) ==
    /\ runs[r].pc \notin {"idle", "END", "done"}
    /\ LET run     == runs[r]
           address == run.state.subsidy_data
           after   == RunNode(run.pc, View(r), run.script)
       IN  /\ heap' = [heap EXCEPT ![address] = after.subsidy_data]
           /\ runs' = [runs EXCEPT ![r] = [run EXCEPT !.pc = NextNode(run.pc),
                                                      !.state = [after EXCEPT !.subsidy_data = address],
                                                      !.hist = Append(@, after)]]
    /\ UNCHANGED <<runVars, stageVars, utilVars>>

\* workflow.invoke returned to the entry point of call r
PairReturn(r) ==
    /\ runs[r].pc = "END"
    /\ \E processing_time \in Elapsed :
           LET final_state == [runs[r].state EXCEPT !.processing_time = Some(processing_time)]
           IN  runs' = [runs EXCEPT ![r] = [@ EXCEPT !.pc = "done",
                                                     !.state = final_state,
                                                     !.result = Some(PipelineResult(final_state,
                                                                                    processing_time))]]
    /\ UNCHANGED <<heap, runVars, stageVars, utilVars>>

PairNext ==
    \E r \in RunIds :
        \/ PairCall(r)
        \/ PairStep(r)
        \/ PairReturn(r)

PairSpec == PairInit /\ [][PairNext]_vars

----------------------------------------------------------------------------
(* The helpers called on their own: each is applied once to an argument     *)
(* drawn from a bounded set.                                                *)

\* the longest tail of a file name
MaxNameLen == 4

\* a word character, an underscore, a hyphen, a blank and a punctuation mark
NameChars == {"a", "_", "-", " ", "!"}

\* a name two characters short of max_length
LongStem == [i \in 1..(max_length - 2) |-> "x"]

Filenames == { stem \o tail : stem \in {<<>>, LongStem}, tail \in SeqsUpTo(NameChars, MaxNameLen) }

Applied(function, argument, value) == [function |-> function, arg |-> argument, ret |-> value]

UtilInit ==
    /\ pc = "idle"
    /\ entry = NoCall
    /\ state = SubsidyState(<<>>, NoneV, EmptyDict)
    /\ result = NoneV
    /\ trace = <<>>
    /\ path = "none"
    /\ completion = NoCompletion
    /\ api_call = NoneV
    /\ raised = NoneV
    /\ saved = <<>>
    /\ downloads = NoneV
    /\ runs = <<>>
    /\ heap = EmptyDict
    /\ applied = NoneV

CleanFilename ==
    /\ applied = NoneV
    /\ \E filename \in Filenames :
           applied' = Some(Applied("clean_filename", filename, clean_filename(filename)))
    /\ UNCHANGED <<runVars, stageVars, pairVars>>

\* llms.py: the class attributes of LanguageModel, by backend.  Two adjacent string
\* literals without a comma between them are one string.
language_models ==
    [ openrouter  |-> << "mistral/ministral-8b",
                         "meta-llama/llama-3.3-70b-instruct",
                         "qwen/qwen-2.5-72b-instruct",
                         "deepseek/deepseek-chat-v3-0324:free",
                         "google/gemini-2.0-flash-001" \o "anthropic/claude-3-haiku",
                         "mistralai/mistral-medium" >>,
      deepseek    |-> << "deepseek-chat" >>,
      openai      |-> << "gpt-4o-mini", "gpt-4o" >>,
      gemini      |-> << "gemini-1.5-flash", "gemini-1.5-pro", "gemini-1.5-flash-8b",
                         "gemini-2.0-flash-lite" >>,
      huggingface |-> << "deepseek-ai/DeepSeek-R1",
                         "meta-llama/Llama-3.1-8B-Instruct",
                         "deepseek-ai/DeepSeek-R1-0528-Qwen3-8B",
                         "mistralai/Mixtral-8x7B-Instruct-v0.1",
                         "Qwen/QwQ-32B",
                         "nvidia/Llama-3.1-Nemotron-70B-Instruct-HF",
                         "deepseek-ai/DeepSeek-R1-Distill-Qwen-32B" >> ]

\* model_name in a list
In(model_name, list) == \E i \in 1..Len(list) : list[i] = model_name

\* LanguageModel.__init__: the chat model it builds, or the ValueError it raises
LanguageModel(model_name) ==
    IF In(model_name, language_models.openrouter)
    THEN [kind |-> "model", backend |-> "ChatOpenAI", key |-> "OPENROUTER_API_KEY"]
    ELSE IF In(model_name, language_models.openai)
    THEN [kind |-> "model", backend |-> "ChatOpenAI", key |-> "OPENAI_API_KEY"]
    ELSE IF In(model_name, language_models.gemini)
    THEN [kind |-> "model", backend |-> "ChatGoogleGenerativeAI", key |-> "GOOGLE_API_KEY"]
    ELSE IF In(model_name, language_models.huggingface)
    THEN [kind |-> "model", backend |-> "ChatHuggingFace", key |-> ""]
    ELSE IF In(model_name, language_models.deepseek)
    THEN [kind |-> "model", backend |-> "ChatDeepSeek", key |-> "DEEPSEEK_API_KEY"]
    ELSE [kind |-> "raise", backend |-> "ValueError", key |-> "Model " \o model_name \o " not found"]

\* test_cli.py: the models show_usage_examples prints as available
AdvertisedModels ==
    { "gpt-4o-mini", "gpt-4o", "deepseek-chat",
      "gemini-1.5-flash", "gemini-1.5-pro", "gemini-2.0-flash-lite",
      "mistral/ministral-8b", "meta-llama/llama-3.3-70b-instruct",
      "anthropic/claude-3-haiku" }

\* the advertised names, every name of the lists, and names of no list
ModelNames ==
    AdvertisedModels
    \cup UNION { { language_models[b][i] : i \in 1..Len(language_models[b]) } :
                 b \in DOMAIN language_models }
    \cup { "", "google/gemini-2.0-flash-001", "gpt-5" }

ConstructLanguageModel ==
    /\ applied = NoneV
    /\ \E model_name \in ModelNames :
           applied' = Some(Applied("LanguageModel", model_name, LanguageModel(model_name)))
    /\ UNCHANGED <<runVars, stageVars, pairVars>>

\* the RunStates extract_bdns_node may be handed, by an entry point or by a caller of
\* the compiled graph: with and without a code, a URL with and without a trailing
\* code, either key of the data bag absent, empty or set
ResolverStates ==
    { SubsidyState(bdns_code, source_url, DictOf({<<"codigo_bdns", a>>, <<"bdns_code", b>>})) :
        bdns_code \in {<<>>, Code845},
        source_url \in {NoneV, Some(<<>>), Some(ConvocatoriasUrl \o Code77),
                        Some(<<"https://example.org", "/">>)},
        a \in {NoneV, Some(<<>>), Some(<<"1">>)},
        b \in {NoneV, Some(<<>>), Some(<<"2">>)} }

ResolveIdentifier ==
    /\ applied = NoneV
    /\ \E st \in ResolverStates :
           applied' = Some(Applied("extract_bdns_node", st, extract_bdns_node(st)))
    /\ UNCHANGED <<runVars, stageVars, pairVars>>

\* the except clause of extract_bdns_node: re.search or subsidy_data.get raised, for a
\* source_url that is no str or a subsidy_data that is no dict
extract_bdns_node_except(st, msg) ==
    [st EXCEPT !.error = Some(<<"Error extracting BDNS: ">> \o msg)]

\* the RunStates node may be handed in a call by code: what the nodes before it make
\* of the state analyze_from_bdns builds
RECURSIVE Before(_)
Before(node) ==
    CASE node = "extract_bdns" ->
             { SubsidyState(Code845, Some(ConvocatoriasUrl \o Code845), EmptyDict) }
      [] node = "fetch_subsidy_info" ->
             { extract_bdns_node(st) : st \in Before("extract_bdns") }
      [] node = "find_pdf_urls" ->
             { fetch_subsidy_info_node(st, resp) :
                 st \in Before("fetch_subsidy_info"),
                 resp \in { ApiResponse(404, NoneV, <<>>),
                            ApiResponse(200, Some(MalformedBody), <<>>),
                            ApiResponse(200, Some([documentos |-> <<BasesPdf>>]), <<>>),
                            ApiResponse(200, Some([documentos |-> <<BasesPdf, AnexoPdf>>]), <<>>) } }
      [] node = "download_pdfs" ->
             { find_pdf_urls_node(st) : st \in Before("find_pdf_urls") }
      [] node = "analyze_subsidy" ->
             { download_pdfs_node(st, "ok", <<>>, [i \in 1..Len(st.pdf_urls) |-> out]) :
                 st \in Before("download_pdfs"),
                 out \in { Outcome("ok", 404, <<>>, "ok", "ok", <<>>),
                           Outcome("ok", 200, PdfBytes, "ok", "ok", << <<"t", "e", "x", "t">> >>) } }
      [] node = "save_results" ->
             { analyze_subsidy_node(st, resp) :
                 st \in Before("analyze_subsidy"),
                 resp \in { LlmReturned(text, TokenUsage) : text \in {<<>>, FullJson, PartialJson} } }

\* a node, the RunState it is handed, and what its collaborators then do, their
\* exceptions included
NodeCases ==
    LET NodeCase(node, st, answer) == [node |-> node, st |-> st, answer |-> answer]
    IN  { NodeCase("extract_bdns", st, [raise |-> r]) :
            st \in Before("extract_bdns"), r \in {NoneV} \cup { Some(msg) : msg \in ExcMessages } }
        \cup { NodeCase("fetch_subsidy_info", st, resp) :
                 st \in Before("fetch_subsidy_info"), resp \in ApiResponses }
        \cup { NodeCase("find_pdf_urls", st, <<>>) : st \in Before("find_pdf_urls") }
        \cup UNION { { NodeCase("download_pdfs", st, [mkdir |-> "ok", msg |-> <<>>, outs |-> outs]) :
                         outs \in [1..Len(st.pdf_urls) -> Outcomes] } :
                     st \in Before("download_pdfs") }
        \cup { NodeCase("download_pdfs", st, [mkdir |-> "raise", msg |-> msg, outs |-> <<>>]) :
                 st \in { s \in Before("download_pdfs") : TruthySeq(s.pdf_urls) },
                 msg \in ExcMessages }
        \cup { NodeCase("analyze_subsidy", st, resp) :
                 st \in Before("analyze_subsidy"), resp \in LlmResponses }
        \cup { NodeCase("save_results", st, [io |-> "ok", msg |-> <<>>]) :
                 st \in Before("save_results") }
        \cup { NodeCase("save_results", st, [io |-> "raise", msg |-> msg]) :
                 st \in { s \in Before("save_results") : ~NothingToSave(s) },
                 msg \in ExcMessages }

\* the node function of the case, applied to its state with its answers
NodeOf(case) ==
    LET st == case.st
        answer == case.answer
    IN  CASE case.node = "extract_bdns" ->
                 IF answer.raise = NoneV THEN extract_bdns_node(st)
                 ELSE extract_bdns_node_except(st, Val(answer.raise))
          [] case.node = "fetch_subsidy_info" -> fetch_subsidy_info_node(st, answer)
          [] case.node = "find_pdf_urls"      -> find_pdf_urls_node(st)
          [] case.node = "download_pdfs"      ->
                 download_pdfs_node(st, answer.mkdir, answer.msg, answer.outs)
          [] case.node = "analyze_subsidy"    -> analyze_subsidy_node(st, answer)
          [] case.node = "save_results"       -> save_results_node(st, answer.io, answer.msg)

ApplyNode ==
    /\ applied = NoneV
    /\ \E case \in NodeCases : applied' = Some(Applied("node", case, NodeOf(case)))
    /\ UNCHANGED <<runVars, stageVars, pairVars>>

\* references of one convocatoria: two whose names differ and clean to the same
\* name, two whose cleaned names agree on their first max_length characters, and one
\* that shares its name with none
StoredRef(id, name) ==
    [url |-> DocumentUrl \o Code845 \o <<"/", "document", "/">> \o id, name |-> name, id |-> id]
StoredRefs ==
    { StoredRef(<<"7">>, <<"B", "a", "s", "e", "s", ".", "p", "d", "f">>),
      StoredRef(<<"4">>, <<"B", "a", "s", "e", "s", ".", ".", "p", "d", "f">>),
      StoredRef(<<"1">>, LongStem \o <<"a", "b", "c">>),
      StoredRef(<<"2">>, LongStem \o <<"a", "b", "d">>),
      StoredRef(<<"8">>, <<"a", "n", "e", "x", "o", ".", "p", "d", "f">>) }

\* a second PDF, with other bytes than the first
OtherPdfBytes == PdfBytes \o <<"\n", "2">>
StoredOutcomes ==
    { Outcome("ok", 404, <<>>, "ok", "ok", <<>>),
      Outcome("ok", 200, PdfBytes, "ok", "ok", << <<"t", "e", "x", "t">> >>),
      Outcome("ok", 200, OtherPdfBytes, "ok", "ok", << <<"o", "t", "r", "o">> >>),
      Outcome("ok", 200, OtherPdfBytes, "ok", "ok", << <<" ">> >>),
      Outcome("ok", 200, PdfBytes, "raise", "ok", << <<"t", "e", "x", "t">> >>) }

\* download_pdfs_node handed two references: the state it returns and the download
\* directory it leaves
StoreDocuments ==
    /\ applied = NoneV
    /\ \E first \in StoredRefs, second \in StoredRefs, outs \in [1..2 -> StoredOutcomes] :
           LET st == [SubsidyState(Code845, Some(ConvocatoriasUrl \o Code845), EmptyDict)
                          EXCEPT !.pdf_urls = <<first, second>>]
           IN  applied' = Some(Applied("download_pdfs_node",
                                       [pdf_urls |-> st.pdf_urls, outs |-> outs],
                                       [state |-> download_pdfs_node(st, "ok", <<>>, outs),
                                        directory |-> Directory(Writes(st.pdf_urls, outs,
                                                                       st.bdns_code))]))
    /\ UNCHANGED <<runVars, stageVars, pairVars>>

----------------------------------------------------------------------------
(* enhanced_subsidy_analyzer_2_0.py: EnhancedSubsidyAnalyzer2_0, the standalone *)
(* analyzer.  The browser and the registry behind find_and_download_pdfs, the   *)
(* completion client and the file system are given by their outcomes.           *)

\* d.get(k, default)
GetOr(d, k, default) == IF k \in DOMAIN d THEN d[k] ELSE default

\* subsidy_data.get('codigo_bdns', subsidy_data.get('bdns_code', 'unknown'))
SubsidyCode(subsidy_data) ==
    GetOr(subsidy_data, "codigo_bdns", GetOr(subsidy_data, "bdns_code", <<"unknown">>))

\* what the search for documents met: an exception, or the documents whose text was
\* extracted through the registry and the text of the first PDF linked from the page
Discovery(kind, docs, page) == [kind |-> kind, docs |-> docs, page |-> page]

\* (pdf_text, pdf_count)
find_and_download_pdfs(subsidy_data, discovery) ==
    IF ~TruthyOpt(Get(subsidy_data, "source_url")) \/ discovery.kind = "raise"
    THEN [pdf_text |-> NoneV, pdf_count |-> 0]
    ELSE IF discovery.docs # <<>>
    THEN [pdf_text |-> Some(CombinedPdfText(discovery.docs)), pdf_count |-> Len(discovery.docs)]
    ELSE IF TruthyOpt(discovery.page)
    THEN [pdf_text |-> discovery.page, pdf_count |-> 1]
    ELSE [pdf_text |-> NoneV, pdf_count |-> 0]

\* the sections of an analysis other than its metadata
AnalysisSections ==
    { "subsidy_metadata", "document_requirements", "content_requirements",
      "budget_requirements", "timeline_requirements", "evaluation_criteria",
      "compliance_requirements", "strategic_recommendations", "documentation_templates" }

\* _create_fallback_analysis: every section but subsidy_metadata is a literal
create_fallback_analysis(subsidy_data) ==
    [ k \in AnalysisSections \cup {"analysis_metadata"} |->
        IF k = "subsidy_metadata"
        THEN JObj([ code  |-> JText(SubsidyCode(subsidy_data)),
                    title |-> JText(GetOr(subsidy_data, "title", <<"Unknown">>)),
                    sector |-> JStr, region |-> JStr, total_budget |-> JStr,
                    max_per_beneficiary |-> JStr, cofinancing_percentage |-> JStr ])
        ELSE IF k = "analysis_metadata"
        THEN JObj([ analysis_date     |-> JText(<<NowIso>>),
                    subsidy_code      |-> JText(SubsidyCode(subsidy_data)),
                    used_pdf          |-> JBool(FALSE),
                    model_used        |-> JText(<<ModelName>>),
                    version           |-> JText(<<"2.0">>),
                    fallback_analysis |-> JBool(TRUE) ])
        ELSE JStr ]

\* the record assigned to analysis_json['analysis_metadata']
AnalysisMetadata(subsidy_data, pdf_text) ==
    JObj([ analysis_date |-> JText(<<NowIso>>),
           subsidy_code  |-> JText(SubsidyCode(subsidy_data)),
           used_pdf      |-> JBool(TruthyOpt(pdf_text)),
           model_used    |-> JText(<<ModelName>>),
           version       |-> JText(<<"2.0">>) ])

\* the file save_enhanced_analysis writes
save_enhanced_analysis(analysis_json, subsidy_code, used_pdf) ==
    [ path |-> DownloadDir \o <<"Enhanced_Analysis_">> \o subsidy_code \o <<"_", NowStamp>>
               \o (IF used_pdf THEN <<"_with_PDF">> ELSE <<"_JSON_only">>) \o <<".json">>,
      data |-> analysis_json ]

\* how a block of statements ends
Raises == [kind |-> "raise", value |-> EmptyDict, files |-> <<>>]
Returns(value, files) == [kind |-> "return", value |-> value, files |-> files]

\* client.chat.completions.create: raised, or returned a response with this content
ChatRaised == [kind |-> "raise", content |-> NoneV]
ChatReturned(content) == [kind |-> "ok", content |-> content]

\* the statements of analyze_subsidy_enhanced inside its outer try; io: "ok", or
\* "raise" (open or json.dump raised in save_enhanced_analysis)
EnhancedTry(subsidy_data, discovery, resp, io) ==
    LET pdf == find_and_download_pdfs(subsidy_data, discovery) IN
    IF resp.kind = "raise" THEN Raises
    \* re.search on a content of None: TypeError, which the inner except does not catch
    ELSE IF resp.content = NoneV THEN Raises
    ELSE LET analysis_text == Val(resp.content)
             loaded == IF HasJsonSpan(analysis_text) THEN JsonLoads(JsonSpan(analysis_text))
                       ELSE Some(create_fallback_analysis(subsidy_data))
         IN  \* except json.JSONDecodeError
             IF loaded = NoneV THEN Returns(create_fallback_analysis(subsidy_data), <<>>)
             ELSE LET analysis_json == Put(Val(loaded), "analysis_metadata",
                                           AnalysisMetadata(subsidy_data, pdf.pdf_text))
                  IN  IF io = "raise" THEN Raises
                      ELSE Returns(analysis_json,
                                   << save_enhanced_analysis(analysis_json,
                                                             SubsidyCode(subsidy_data),
                                                             TruthyOpt(pdf.pdf_text)) >>)

\* a variant without the outer except
analyze_subsidy_enhanced_NoOuterExcept(subsidy_data, discovery, resp, io) ==
    EnhancedTry(subsidy_data, discovery, resp, io)

\* except Exception: return self._create_fallback_analysis(subsidy_data)
analyze_subsidy_enhanced(subsidy_data, discovery, resp, io) ==
    LET tried == EnhancedTry(subsidy_data, discovery, resp, io)
    IN  IF tried.kind = "raise" THEN Returns(create_fallback_analysis(subsidy_data), <<>>)
        ELSE tried

\* data bags with and without a title, a code and a source_url
EnhancedBags ==
    { DictOf({<<"codigo_bdns", a>>, <<"bdns_code", b>>, <<"source_url", c>>, <<"title", d>>}) :
        a \in {NoneV, Some(<<>>), Some(Code845)},
        b \in {NoneV, Some(Code77)},
        c \in {NoneV, Some(ConvocatoriasUrl \o Code845)},
        d \in {NoneV, Some(<<"A", "y", "u", "d", "a", "s">>)} }

Discoveries ==
    { Discovery("raise", <<>>, NoneV),
      Discovery("ok", <<>>, NoneV),
      Discovery("ok", <<>>, Some(<<"t", "e", "x", "t">>)),
      Discovery("ok", << [filename |-> <<"B", "a", "s", "e", "s", ".", "p", "d", "f">>,
                          text |-> <<"t", "e", "x", "t">>] >>, NoneV) }

ChatResponses ==
    {ChatRaised, ChatReturned(NoneV)} \cup { ChatReturned(Some(t)) : t \in LlmTexts }

AnalyzeSubsidyEnhanced ==
    /\ applied = NoneV
    /\ \E subsidy_data \in EnhancedBags, discovery \in Discoveries,
          resp \in ChatResponses, io \in {"ok", "raise"} :
           applied' = Some(Applied("analyze_subsidy_enhanced",
                                   [subsidy_data |-> subsidy_data, discovery |-> discovery,
                                    resp |-> resp, io |-> io],
                                   analyze_subsidy_enhanced(subsidy_data, discovery, resp, io)))
    /\ UNCHANGED <<runVars, stageVars, pairVars>>

UtilNext ==
    \/ CleanFilename
    \/ ResolveIdentifier
    \/ ApplyNode
    \/ ConstructLanguageModel
    \/ StoreDocuments
    \/ AnalyzeSubsidyEnhanced

UtilSpec == UtilInit /\ [][UtilNext]_vars

----------------------------------------------------------------------------
(* Properties *)

NodeSet == {Nodes[i] : i \in 1..Len(Nodes)}
Returned == pc = "done"
Res == Val(result)

\* an identifier can be derived from what the caller passed: the explicit code, the
\* trailing numeric segment of the URL, or a code field of the data bag
Derivable(call) ==
    CASE call.method = "analyze_from_bdns" -> TruthySeq(call.bdns_code)
      [] call.method = "analyze_from_url"  -> TruthyOpt(extract_bdns_from_url(call.url))
      [] call.method = "analyze_from_data" ->
            \/ TruthyOpt(Get(call.subsidy_data, "codigo_bdns"))
            \/ TruthyOpt(Get(call.subsidy_data, "bdns_code"))
            \/ /\ TruthyOpt(Get(call.subsidy_data, "source_url"))
               /\ TruthyOpt(extract_bdns_from_url(call.subsidy_data["source_url"]))
      [] OTHER -> FALSE

IsPrefix(a, b) == Len(a) <= Len(b) /\ SubSeq(b, 1, Len(a)) = a

StartsWith(optStr, chunk) == optStr # NoneV /\ Val(optStr) # <<>> /\ Val(optStr)[1] = chunk

\* C1: the nodes run in the fixed order extract_bdns, fetch_subsidy_info, find_pdf_urls,
\* download_pdfs, analyze_subsidy, save_results, none skipped and none twice: what
\* has run is always the start of that order, the node about to run is the next one
\* of it, and a call from which an identifier is derivable that returns otherwise
\* than through the except clause of the entry point has run all six, whatever
\* error an earlier node has set.
C1_FixedStageOrder ==
    /\ IsPrefix(trace, Nodes)
    /\ pc \in NodeSet => pc = Nodes[Len(trace) + 1]
    /\ pc = "END" => trace = Nodes
    /\ (Returned /\ Derivable(entry) /\ path # "exception") =>
           (path = "pipeline" /\ trace = Nodes)

\* a run whose registry request failed, setting error in the second node, has
\* still run all six nodes
C1_Witness ==
    /\ Returned /\ Derivable(entry) /\ path = "pipeline"
    /\ trace = Nodes
    /\ StartsWith(Res.error, "Error fetching subsidy info: ")

\* the pre-check of an entry point made it return before the workflow started
PrecheckFails(call) ==
    \/ /\ call.method = "analyze_from_url"
       /\ ~TruthyOpt(extract_bdns_from_url(call.url))
    \/ /\ call.method = "analyze_from_data"
       /\ ~TruthyOpt(Get(call.subsidy_data, "codigo_bdns"))
       /\ ~TruthyOpt(Get(call.subsidy_data, "bdns_code"))
       /\ ~TruthyOpt(Get(call.subsidy_data, "source_url"))

\* C2 as stated: whenever no identifier is derivable the run returns success=false
\* with a non-empty error and a processing_time, and no node is invoked.
C2_NoStageWithoutIdentifier ==
    (entry.method # "none" /\ ~Derivable(entry)) =>
        /\ trace = <<>>
        /\ Returned => (~Res.success /\ TruthyOpt(Res.error) /\ Res.processing_time >= 0)

\* C2 amended: when no identifier is derivable the run returns success=false with a
\* processing_time.  No node is invoked exactly when the entry point's own pre-check
\* fails: analyze_from_url with a URL that has no trailing numeric segment, or
\* analyze_from_data with neither a non-empty code field nor a non-empty source_url.
\* analyze_from_bdns with an empty code, and analyze_from_data with a source_url
\* lacking a trailing numeric segment, start the workflow; when it returns, all six
\* nodes have run and error is non-empty.
C2_PrecheckOrPipeline ==
    (Returned /\ ~Derivable(entry)) =>
        /\ ~Res.success
        /\ Res.processing_time >= 0
        /\ (path = "precheck") = PrecheckFails(entry)
        /\ path = "precheck" =>
               (trace = <<>> /\ TruthyOpt(Res.error) /\ Res.processing_time = 0)
        /\ path = "pipeline" => (trace = Nodes /\ TruthyOpt(Res.error))

\* analyze_from_bdns("") went through the whole pipeline and returned the error of
\* the registry client
C2_Witness ==
    /\ Returned /\ ~Derivable(entry) /\ path = "pipeline"
    /\ entry.method = "analyze_from_bdns"
    /\ Res.error = Some(<<"No BDNS code available for API call">>)

\* C3 as stated: in every returned result success is false exactly when error is a
\* non-empty string, on the pre-check, pipeline and exception paths alike.
C3_SuccessIffNoError ==
    Returned => ((~Res.success) = TruthyOpt(Res.error))

\* C4: when workflow.invoke raises, the entry point returns success=false, error the
\* message of the exception, analysis_result and raw_analysis null, pdf_count 0, a
\* processing_time, and logs holding the single entry "Workflow failed: <message>",
\* whatever the nodes had logged.
C4_ExceptionBoundary ==
    path = "exception" =>
        /\ Returned /\ raised # NoneV
        /\ ~Res.success
        /\ Res.error = raised
        /\ Res.analysis_result = NoneV /\ Res.raw_analysis = NoneV
        /\ Res.pdf_count = 0
        /\ Res.processing_time \in Elapsed
        /\ Res.logs = << <<"Workflow failed: ">> \o Val(raised) >>

\* the exception came after nodes had logged and counted documents
C4_Witness ==
    /\ path = "exception"
    /\ Len(state.logs) >= 3
    /\ state.pdf_count >= 1

\* C5: pdf_count equals len(pdf_texts) at every node boundary of a run and in the
\* state the run ends with.
C5_CountIsLength ==
    pc # "idle" => state.pdf_count = Len(state.pdf_texts)

\* download_pdfs_node kept some references and dropped others
C5_Witness ==
    /\ pc = "analyze_subsidy"
    /\ state.pdf_count >= 1
    /\ state.pdf_count < Len(state.pdf_urls)

RECURSIVE IsSubseq(_, _)
IsSubseq(a, b) ==
    IF a = <<>> THEN TRUE
    ELSE IF b = <<>> THEN FALSE
    ELSE IF Head(a) = Head(b) THEN IsSubseq(Tail(a), Tail(b))
    ELSE IsSubseq(a, Tail(b))

TextNames(pdf_texts) == [i \in 1..Len(pdf_texts) |-> pdf_texts[i].filename]
RefNames(pdf_urls) == [i \in 1..Len(pdf_urls) |-> pdf_urls[i].name]

\* C6: the names in pdf_texts are a subsequence of the names in pdf_urls: kept
\* references stay in reference order, failed ones leave no entry.
C6_TextsSubsequenceOfRefs ==
    /\ IsSubseq(TextNames(state.pdf_texts), RefNames(state.pdf_urls))
    /\ Len(state.pdf_texts) <= Len(state.pdf_urls)

\* two references with different names were both kept
C6_Witness ==
    /\ pc = "analyze_subsidy"
    /\ Len(state.pdf_texts) = 2
    /\ state.pdf_texts[1].filename # state.pdf_texts[2].filename

\* the registry request failed: it raised, json() raised, or the status is not 200
RegistryFailed(resp) ==
    resp.kind = "raise" \/ resp.status # 200 \/ IsNone(resp.body)
RegistryRaised(resp) ==
    resp.kind = "raise" \/ (resp.status = 200 /\ IsNone(resp.body))

FetchStep == pc = "fetch_subsidy_info" /\ pc' = "find_pdf_urls" /\ api_call' # NoneV

C8_FirstErrorKept ==
    [][ state.error # NoneV => state'.error = state.error ]_vars

\* C8 amended: once a node has set error it stays set for the rest of the run, but
\* a later node that reports a failure of its own overwrites the value, so the run
\* ends with the last error reported: the resolver's "No BDNS code could be
\* extracted" is replaced by "No BDNS code available for API call" in the next node.
C8_ErrorStaysSet ==
    [][ /\ TruthyOpt(state.error) => TruthyOpt(state'.error)
        /\ ( /\ pc = "fetch_subsidy_info" /\ pc' = "find_pdf_urls"
             /\ state.error = Some(<<"No BDNS code could be extracted">>) )
           => state'.error = Some(<<"No BDNS code available for API call">>) ]_vars

\* the resolver failed and the registry client has replaced its error
C8_Witness ==
    /\ pc = "find_pdf_urls"
    /\ ~TruthySeq(state.bdns_code)
    /\ state.error = Some(<<"No BDNS code available for API call">>)

\* the completion text has a brace-delimited span that parses and validates
SpanValidates(text) ==
    /\ HasJsonSpan(text)
    /\ JsonLoads(JsonSpan(text)) # NoneV
    /\ Validates(Val(JsonLoads(JsonSpan(text))))

\* C9: when the span of the completion text parses and validates, analysis_result
\* is populated and raw_analysis is null; analysis_result and raw_analysis are never
\* both non-null.
C9_StructuredExcludesRaw ==
    /\ ~(state.analysis_result # NoneV /\ state.raw_analysis # NoneV)
    /\ (completion.kind = "text" /\ SpanValidates(completion.text)) =>
           (state.analysis_result # NoneV /\ state.raw_analysis = NoneV)

\* the completion wrapped a valid object in prose
C9_Witness ==
    /\ completion.kind = "text"
    /\ completion.text = <<"here is the result: ">> \o FullJson \o <<" thanks">>
    /\ state.analysis_result # NoneV

\* C10: when the completion text has no "{" ... "}" span, then after
\* analyze_subsidy_node error is "Could not extract valid JSON from LLM response",
\* analysis_result is null and raw_analysis holds the original text under
\* raw_response (next to the metadata record).
C10_NoJsonKeepsRawResponse ==
    (completion.kind = "text" /\ ~HasJsonSpan(completion.text)) =>
        /\ state.analysis_result = NoneV
        /\ state.raw_analysis # NoneV
        /\ DOMAIN Val(state.raw_analysis) = {"raw_response", "metadata"}
        /\ Val(state.raw_analysis)["raw_response"] = completion.text
        /\ pc = "save_results" =>
               state.error = Some(<<"Could not extract valid JSON from LLM response">>)

\* the completion was plain prose
C10_Witness ==
    /\ pc = "save_results"
    /\ completion.kind = "text"
    /\ completion.text = <<"No puedo analizar esta convocatoria.">>
    /\ state.raw_analysis # NoneV

\* the completion text has a brace-delimited span that json.loads accepts
SpanParses(text) == HasJsonSpan(text) /\ JsonLoads(JsonSpan(text)) # NoneV

AnalyzeStep == pc = "analyze_subsidy" /\ pc' = "save_results"

\* C11 as stated: whenever the span from the first "{" to the last "}" of the
\* completion text parses as a JSON object, analyze_subsidy_node does not set error:
\* it stores analysis_result, or the parsed object in raw_analysis, for every parsed
\* object, the empty object {} included.
C11_ParsedObjectIsNotAnError ==
    [][ (AnalyzeStep /\ completion'.kind = "text" /\ SpanParses(completion'.text)) =>
            LET parsed == Val(JsonLoads(JsonSpan(completion'.text))) IN
            /\ state'.error = state.error
            /\ \/ state'.analysis_result # NoneV
               \/ /\ state'.raw_analysis # NoneV
                  /\ \A k \in DOMAIN parsed :
                         /\ k \in DOMAIN Val(state'.raw_analysis)
                         /\ Val(state'.raw_analysis)[k] = parsed[k] ]_vars

\* the entries of seq at the positions in S, in order
RECURSIVE Pick(_, _, _)
Pick(seq, S, i) ==
    IF i > Len(seq) THEN <<>>
    ELSE (IF i \in S THEN <<seq[i]>> ELSE <<>>) \o Pick(seq, S, i + 1)

\* download_pdfs_node ran its loop over the references, with these outcomes
AcquireStep ==
    /\ pc = "download_pdfs" /\ pc' = "analyze_subsidy"
    /\ TruthySeq(state.pdf_urls)
    /\ downloads' # NoneV /\ Val(downloads').mkdir = "ok"

\* the reference was downloaded and its bytes do not start with %PDF
NotPdf(out) == out.get = "ok" /\ out.status = 200 /\ ~validate_pdf_content(out.content)

\* the positions of the references whose download did not give non-PDF bytes
PdfPositions(outs) == {j \in 1..Len(outs) : ~NotPdf(outs[j])}

\* C12 as stated: a reference whose downloaded bytes do not start with %PDF is absent
\* from pdf_texts, does not count in pdf_count, and the logs of the RunState gain a
\* skip entry for it (an entry naming the document).
C12_NonPdfSkippedAndLogged ==
    [][ AcquireStep =>
            LET outs == Val(downloads').outs
                refs == state.pdf_urls
            IN  /\ IsSubseq(TextNames(state'.pdf_texts),
                            Pick(RefNames(refs), PdfPositions(outs), 1))
                /\ state'.pdf_count <= Cardinality(PdfPositions(outs))
                /\ \A i \in 1..Len(refs) : NotPdf(outs[i]) =>
                       \E k \in (Len(state.logs) + 1)..Len(state'.logs) :
                           Contains(state'.logs[k], refs[i].name) ]_vars

\* C12 amended: a reference whose downloaded bytes do not start with %PDF is absent
\* from pdf_texts and does not count in pdf_count; the logs of the RunState gain no
\* entry for it: download_pdfs_node appends the one entry "Downloaded and processed
\* <pdf_count> PDFs", and the skip is reported to the process logger only.
C12_NonPdfSkipped ==
    [][ AcquireStep =>
            LET outs == Val(downloads').outs
                refs == state.pdf_urls
            IN  /\ IsSubseq(TextNames(state'.pdf_texts),
                            Pick(RefNames(refs), PdfPositions(outs), 1))
                /\ state'.pdf_count <= Cardinality(PdfPositions(outs))
                /\ state'.logs = state.logs \o
                       << <<"Downloaded and processed ", ToString(state'.pdf_count), " PDFs">> >>
                /\ state'.error = state.error ]_vars

\* of two references the first gave bytes without the signature and the second was kept
C12_Witness ==
    /\ pc = "analyze_subsidy"
    /\ downloads # NoneV /\ Val(downloads).mkdir = "ok"
    /\ Len(Val(downloads).outs) = 2
    /\ NotPdf(Val(downloads).outs[1])
    /\ TruthySeq(PagesText(Val(downloads).outs[1].pages))
    /\ state.pdf_count = 1
    /\ state.pdf_texts[1].filename = state.pdf_urls[2].name

EndsWith(s, suffix) ==
    Len(suffix) <= Len(s) /\ SubSeq(s, Len(s) - Len(suffix) + 1, Len(s)) = suffix

\* subsidy_data['documentos'], empty when the key is missing
Documentos(st) ==
    IF "documentos" \in DOMAIN st.subsidy_data THEN st.subsidy_data["documentos"] ELSE <<>>

\* the type field of a descriptor, and the first non-empty of its three name fields
TypeField(doc) == OrOpt(Get(doc.o, "tipo"), Get(doc.o, "type"))
DisplayName(doc) == OrOpt(Get(doc.o, "nombreFic"), OrOpt(Get(doc.o, "nombre"), Get(doc.o, "name")))
DisplayNameOrUnknown(doc) ==
    IF TruthyOpt(DisplayName(doc)) THEN DisplayName(doc)
    ELSE Some(<<"U", "n", "k", "n", "o", "w", "n">>)

LooksLikePdf(doc) ==
    \/ TypeField(doc) = Some(<<"P", "D", "F">>)
    \/ /\ TruthyOpt(DisplayName(doc))
       /\ Contains(Lower(Val(DisplayName(doc))), <<"p", "d", "f">>)

\* the descriptor has an id field / has an id field that is not empty
HasIdField(doc) == LooksLikePdf(doc) /\ "id" \in DOMAIN doc.o
HasNonEmptyId(doc) == LooksLikePdf(doc) /\ TruthyOpt(Get(doc.o, "id"))

\* refs holds one reference for each descriptor of docs that Emits accepts, in the
\* order of docs, with the url and the name the claim gives it
RefsMatch(refs, docs, bdns_code, Emits(_), NameOf(_)) ==
    LET idx == {i \in 1..Len(docs) : Emits(docs[i])}
        nth(k) == CHOOSE i \in idx : Cardinality({j \in idx : j < i}) = k - 1
    IN  /\ Len(refs) = Cardinality(idx)
        /\ \A k \in 1..Len(refs) :
               /\ EndsWith(refs[k].url,
                           <<"/">> \o bdns_code \o <<"/", "document", "/">> \o docs[nth(k)].o["id"])
               /\ Some(refs[k].name) = NameOf(docs[nth(k)])

LocatorRan == trace # <<>> /\ trace[1] = "find_pdf_urls"

FrameOfLocator(st) ==
    <<st.bdns_code, st.source_url, st.subsidy_data, st.pdf_texts, st.pdf_count,
      st.analysis_result, st.raw_analysis, st.processing_time>>

LocateStep ==
    /\ pc \in {"find_pdf_urls", "download_pdfs"}
    /\ trace' = Append(trace, "find_pdf_urls")

\* find_pdf_urls_node has run and is run again, no other node in between
LocateAgain == LocateStep /\ trace # <<>>

PromptBuilt == completion.kind # "none"
PromptTemplate == completion.messages[2].template

\* C14: analyze_subsidy_node formats ANALYSIS_PROMPT_WITH_PDF if and only if
\* pdf_texts is non-empty when it starts; with subsidy_data holding an empty
\* documentos list, or none, pdf_urls and pdf_texts are empty, neither
\* find_pdf_urls_node nor download_pdfs_node sets error, and the prompt is formatted
\* from ANALYSIS_PROMPT_WITHOUT_PDF.
C14_PromptFollowsDocuments ==
    /\ PromptBuilt =>
           /\ (PromptTemplate = "ANALYSIS_PROMPT_WITH_PDF") = (state.pdf_texts # <<>>)
           /\ (PromptTemplate = "ANALYSIS_PROMPT_WITHOUT_PDF") = (state.pdf_texts = <<>>)
           /\ completion.messages[2].pdf_text = CombinedPdfText(state.pdf_texts)
    /\ (pc \in {"download_pdfs", "analyze_subsidy", "save_results", "END"}
          /\ Documentos(state) = <<>>) =>
           /\ state.pdf_urls = <<>>
           /\ state.pdf_texts = <<>>
           /\ ~StartsWith(state.error, "Error finding PDFs: ")
           /\ ~StartsWith(state.error, "Error in download process: ")
           /\ PromptBuilt => PromptTemplate = "ANALYSIS_PROMPT_WITHOUT_PDF"

\* the registry answered with an empty documentos list and the model was asked
\* without a document section
C14_Witness ==
    /\ pc = "save_results"
    /\ completion.kind = "text"
    /\ "documentos" \in DOMAIN state.subsidy_data
    /\ state.subsidy_data["documentos"] = <<>>
    /\ state.error = NoneV
    /\ PromptTemplate = "ANALYSIS_PROMPT_WITHOUT_PDF"

\* C16: for every structured result in analysis_result, the text save_results_node
\* writes (model_dump() serialized by json.dump) is parsed by json.load to a mapping
\* equal field for field to the structured result, its metadata included.
C16_SavedResultRoundTrips ==
    \A i \in 1..Len(saved) :
        state.analysis_result # NoneV =>
            LET loaded == JsonLoads(saved[i].text)
                analysis_result == Val(state.analysis_result)
            IN  /\ loaded # NoneV
                /\ DOMAIN Val(loaded) = {"identificacion", "detalles", "condiciones_economicas",
                                         "plazos_procedimiento", "metadata"}
                /\ \A k \in DOMAIN Val(loaded) : Val(loaded)[k] = model_dump(analysis_result).o[k]
                /\ \A k \in SubRecords : Val(loaded)[k].o = analysis_result[k]
                /\ LET metadata == Val(loaded)["metadata"].o
                   IN  /\ metadata["subsidy_code"] = JText(analysis_result.metadata.subsidy_code)
                       /\ metadata["pdf_count"] = JInt(analysis_result.metadata.pdf_count)
                       /\ metadata["used_pdf"] = JBool(analysis_result.metadata.used_pdf)
                       /\ metadata["analysis_date"] = JText(<<analysis_result.metadata.analysis_date>>)
                       /\ metadata["token_usage"].o["input_tokens"] =
                              JInt(Val(analysis_result.metadata.token_usage).input_tokens)

\* a structured result drawn from two documents was written
C16_Witness ==
    /\ Len(saved) = 1
    /\ state.analysis_result # NoneV
    /\ Val(state.analysis_result).metadata.pdf_count = 2
    /\ Val(state.analysis_result).metadata.subsidy_code = Code845

SaveStep == pc = "save_results" /\ pc' = "END"

\* the file holds the structured result if there is one, and raw_analysis otherwise
HoldsResult(file, st) ==
    JsonLoads(file.text) =
        Some(IF st.analysis_result # NoneV THEN model_dump(Val(st.analysis_result)).o
             ELSE RawValue(Val(st.raw_analysis)).o)

\* analysis_result and raw_analysis are both absent, or the code is empty
NoResultOrNoCode(st) ==
    (st.analysis_result = NoneV /\ st.raw_analysis = NoneV) \/ st.bdns_code = <<>>

\* C18 as stated: save_results_node does nothing exactly when analysis_result and
\* raw_analysis are both absent or the code is empty: then it writes no file, does
\* not set error and leaves the RunState unchanged; in every other case it writes
\* exactly one file, holding the structured result if present and raw_analysis otherwise.
C18_NoOpOrOneArtifact ==
    [][ SaveStep =>
            IF NoResultOrNoCode(state)
            THEN saved' = saved /\ state' = state
            ELSE /\ Len(saved') = Len(saved) + 1
                 /\ SubSeq(saved', 1, Len(saved)) = saved
                 /\ HoldsResult(saved'[Len(saved')], state) ]_vars

\* C18 amended: save_results_node does nothing exactly when analysis_result and
\* raw_analysis are both absent or the code is empty: then it writes no file, does
\* not set error and leaves the RunState unchanged.  In every other case either it
\* writes exactly one file, holding the structured result if present and
\* raw_analysis otherwise, and appends "Results saved to <path>" to logs, or
\* creating the directory or opening the file fails, and then no file is written,
\* error is set to "Error saving results: <message>" and logs are left as they were.
C18_NoOpOrOneArtifactOrError ==
    [][ SaveStep =>
            IF NoResultOrNoCode(state)
            THEN saved' = saved /\ state' = state
            ELSE \/ /\ Len(saved') = Len(saved) + 1
                    /\ SubSeq(saved', 1, Len(saved)) = saved
                    /\ HoldsResult(saved'[Len(saved')], state)
                    /\ state' = [state EXCEPT !.logs = @ \o
                           << <<"Results saved to ">> \o saved'[Len(saved')].path >>]
                 \/ /\ saved' = saved
                    /\ StartsWith(state'.error, "Error saving results: ")
                    /\ state' = [state EXCEPT !.error = state'.error] ]_vars

\* the response held no JSON: the file written holds the raw response
C18_Witness ==
    /\ pc = "END"
    /\ Len(saved) = 1
    /\ state.analysis_result = NoneV
    /\ state.raw_analysis # NoneV
    /\ "raw_response" \in DOMAIN Val(state.raw_analysis)
    /\ HoldsResult(saved[1], state)
    /\ Val(JsonLoads(saved[1].text))["raw_response"] = JText(Val(state.raw_analysis)["raw_response"])

\* a node ran: the compiled graph went from one node to the next
NodeStep == pc \in NodeSet /\ pc' = NextNode(pc)

\* the node that writes a log entry, by the words the entry starts with
LogStage(log) ==
    CASE log[1] = "BDNS code: " -> 1
      [] log[1] \in {"API data fetched successfully", "API call failed with status: "} -> 2
      [] log[1] = "Found " -> 3
      [] log[1] \in {"No PDFs to download", "Downloaded and processed "} -> 4
      [] log[1] = "LLM analysis completed" -> 5
      [] log[1] = "Results saved to " -> 6
      [] OTHER -> 0

\* C19: across every node of a run the logs before are a prefix of the logs after
\* (entries are appended, never removed, reordered or rewritten), each node appends
\* at most one entry, and so the entries stand in the order of the nodes.
C19_LogsAppendOnly ==
    [][ /\ NodeStep =>
               /\ IsPrefix(state.logs, state'.logs)
               /\ Len(state'.logs) <= Len(state.logs) + 1
               /\ \A i \in (Len(state.logs) + 1)..Len(state'.logs) :
                      LogStage(state'.logs[i]) = Len(trace')
               /\ \A i, j \in 1..Len(state'.logs) :
                      i < j => LogStage(state'.logs[i]) < LogStage(state'.logs[j])
        /\ pc = "END" => state'.logs = state.logs ]_vars

\* every node of the run has appended its entry
C19_Witness ==
    /\ pc = "END"
    /\ Len(state.logs) = 6
    /\ \A i \in 1..6 : LogStage(state.logs[i]) = i

\* call r went by URL and call q by the code the URL ends with, and the
\* collaborators gave both the same answers
UrlAndItsCode(r, q) ==
    /\ runs[r].call.method = "analyze_from_url"
    /\ runs[q].call.method = "analyze_from_bdns"
    /\ extract_bdns_from_url(runs[r].call.url) = Some(runs[q].call.bdns_code)
    /\ runs[r].script = runs[q].script

\* C17: analyze_from_url(u), u ending in "/" and the digits c, goes through the same
\* states and returns the same mapping as analyze_from_bdns(c) given the same answers
\* of the collaborators; for a URL without such an ending it returns the failure
\* mapping and no node runs.
C17_UrlEntryEqualsCodeEntry ==
    \A r \in RunIds :
        /\ \A q \in RunIds :
               UrlAndItsCode(r, q) =>
                   /\ IsPrefix(runs[r].hist, runs[q].hist) \/ IsPrefix(runs[q].hist, runs[r].hist)
                   /\ runs[r].pc = runs[q].pc => View(r) = View(q)
                   /\ (runs[r].pc = "done" /\ runs[q].pc = "done") =>
                          runs[r].result = runs[q].result
        /\ (runs[r].call.method = "analyze_from_url"
              /\ ~TruthyOpt(extract_bdns_from_url(runs[r].call.url))) =>
               /\ runs[r].pc = "done"
               /\ runs[r].hist = <<>>
               /\ runs[r].result # NoneV
               /\ Val(runs[r].result) =
                      PrecheckFailure(<<"Could not extract BDNS code from URL: ">>
                                      \o runs[r].call.url)

\* a call by a URL that is not the registry's own and a call by its code have both
\* gone through the six nodes and returned
C17_Witness ==
    /\ UrlAndItsCode(1, 2)
    /\ runs[1].call.url # ConvocatoriasUrl \o runs[2].call.bdns_code
    /\ runs[1].pc = "done"
    /\ runs[2].pc = "done"
    /\ Len(runs[1].hist) = 6
    /\ Val(runs[1].result).success

\* the states call r would go through with no other call running: its initial state
\* as its entry point built it, then the six nodes with the same answers
Alone(r) ==
    RunFrom(Nodes[1], EntryOf(runs[r].call).initial_state, runs[r].script)

\* C20: two calls on one analyzer, interleaved node by node, each own their RunState:
\* every state a call goes through, and the mapping it returns, is the one it reaches
\* with no other call running and the same answers of the collaborators.
C20_RunsAreIsolated ==
    \A r \in RunIds :
        (runs[r].call.method # "none" /\ EntryOf(runs[r].call).kind = "invoke") =>
            /\ IsPrefix(runs[r].hist, Alone(r))
            /\ runs[r].pc = "done" =>
                   Val(runs[r].result) =
                       PipelineResult(Alone(r)[6], Val(runs[r].result).processing_time)

\* clean_filename was called
Cleaned == applied # NoneV /\ Val(applied).function = "clean_filename"

Separators == SpaceChars \cup {"-"}

\* the position before i that counts as the neighbour of i: the one next to it in s
\* when bySource, else the nearest one holding a word character or a separator
Previous(s, i, bySource) ==
    LET before == { j \in 1..(i - 1) : bySource \/ s[j] \in WordChars \cup Separators }
    IN  IF before = {} THEN 0 ELSE CHOOSE j \in before : \A k \in before : k <= j

\* s without its characters that are neither word characters nor separators, an
\* underscore standing for every maximal run of separators: a run of s itself when
\* bySource, a run of what is left of s otherwise
Squeezed(s, bySource) ==
    LET keep == { i \in 1..Len(s) :
                     \/ s[i] \in WordChars
                     \/ /\ s[i] \in Separators
                        /\ LET j == Previous(s, i, bySource)
                           IN  j = 0 \/ s[j] \notin Separators }
        nth(n) == CHOOSE i \in keep : Cardinality({ j \in keep : j <= i }) = n
    IN  [n \in 1..Cardinality(keep) |-> IF s[nth(n)] \in Separators THEN "_" ELSE s[nth(n)]]

FirstChars(s, n) == SubSeq(s, 1, IF Len(s) < n THEN Len(s) ELSE n)

\* C21 as stated: clean_filename returns at most 50 characters, word characters only,
\* in which every maximal run of whitespace and hyphens of the input has become a
\* single underscore.
C21_RunsOfInputCollapsed ==
    Cleaned =>
        LET ret == Val(applied).ret
        IN  /\ Len(ret) <= 50
            /\ \A i \in 1..Len(ret) : ret[i] \in WordChars
            /\ ret = FirstChars(Squeezed(Val(applied).arg, TRUE), 50)

\* C21: clean_filename returns at most 50 characters, word characters only: the first
\* 50 characters of the input without its characters that are neither word characters,
\* whitespace nor hyphens, every maximal run of whitespace and hyphens of what is
\* left having become a single underscore.
C21_RunsOfRemainderCollapsed ==
    Cleaned =>
        LET ret == Val(applied).ret
        IN  /\ Len(ret) <= 50
            /\ \A i \in 1..Len(ret) : ret[i] \in WordChars
            /\ ret = FirstChars(Squeezed(Val(applied).arg, FALSE), 50)

\* a name longer than 50 characters with hyphens on both sides of a punctuation mark
C21_Witness ==
    /\ Cleaned
    /\ LET arg == Val(applied).arg
       IN  /\ Len(arg) > 50
           /\ \E i \in 2..(Len(arg) - 1) : arg[i] = "!" /\ arg[i - 1] = "-" /\ arg[i + 1] = "-"
    /\ Len(Val(applied).ret) = 50

\* C22: every model name show_usage_examples prints as available is accepted by
\* LanguageModel.__init__: it builds the chat model of one backend and raises no
\* ValueError("Model ... not found").
C22_AdvertisedModelsAccepted ==
    (applied # NoneV /\ Val(applied).function = "LanguageModel"
       /\ Val(applied).arg \in AdvertisedModels) =>
        /\ Val(applied).ret.kind = "model"
        /\ Cardinality({ b \in DOMAIN language_models :
                           In(Val(applied).arg, language_models[b]) }) = 1

\* extract_bdns_node was applied to a RunState
Resolved == applied # NoneV /\ Val(applied).function = "extract_bdns_node"

\* what each source of the code offers, in the order of their priority: the state,
\* the URL, data['codigo_bdns'], data['bdns_code']; the empty string where a source
\* has nothing
Offers(st) ==
    LET orEmpty(o) == IF TruthyOpt(o) THEN Val(o) ELSE <<>>
    IN  << st.bdns_code,
           IF TruthyOpt(st.source_url) THEN orEmpty(extract_bdns_from_url(Val(st.source_url)))
                                       ELSE <<>>,
           orEmpty(Get(st.subsidy_data, "codigo_bdns")),
           orEmpty(Get(st.subsidy_data, "bdns_code")) >>

\* C23: extract_bdns_node takes the code from the first of these that is non-empty:
\* the code already in the state, the trailing digits of source_url,
\* subsidy_data['codigo_bdns'], subsidy_data['bdns_code']; when all are empty it sets
\* error and the code stays empty.
C23_FirstSourceWins ==
    Resolved =>
        LET st     == Val(applied).arg
            ret    == Val(applied).ret
            offers == Offers(st)
            found  == { i \in 1..4 : offers[i] # <<>> }
        IN  /\ found # {} =>
                   /\ ret.bdns_code = offers[CHOOSE i \in found : \A j \in found : i <= j]
                   /\ ret.error = st.error
            /\ found = {} =>
                   /\ ret.bdns_code = <<>>
                   /\ TruthyOpt(ret.error)
            /\ offers[1] # <<>> => ret.bdns_code = st.bdns_code

\* only the last source, subsidy_data['bdns_code'], has a code
C23_Witness ==
    /\ Resolved
    /\ Offers(Val(applied).arg) = << <<>>, <<>>, <<>>, <<"2">> >>
    /\ Val(applied).arg.source_url = Some(<<"https://example.org", "/">>)
    /\ Val(applied).ret.bdns_code = <<"2">>

\* a node function was applied to a RunState
NodeApplied == applied # NoneV /\ Val(applied).function = "node"

\* an exception was raised in the loop body of download_pdfs_node for this reference:
\* by session.get, by open or write, or by PdfReader or extract_text
ItemRaised(out) ==
    \/ out.get = "raise"
    \/ /\ out.get = "ok" /\ out.status = 200 /\ validate_pdf_content(out.content)
       /\ out.write = "raise" \/ out.reader = "raise"

\* where an exception was raised in the case: "stage" when the try block of the node
\* function caught it, "item" when a try block inside it did, "none" without one
Fault(case) ==
    LET st == case.st
        answer == case.answer
    IN  CASE case.node = "extract_bdns" ->
                 IF answer.raise # NoneV THEN "stage" ELSE "none"
          [] case.node = "fetch_subsidy_info" ->
                 IF TruthySeq(st.bdns_code)
                    /\ (answer.kind = "raise" \/ (answer.status = 200 /\ IsNone(answer.body)))
                 THEN "stage" ELSE "none"
          [] case.node = "find_pdf_urls" ->
                 IF GetRaises(Documentos(st)) THEN "stage" ELSE "none"
          [] case.node = "download_pdfs" ->
                 IF answer.mkdir = "raise" THEN "stage"
                 ELSE IF \E i \in 1..Len(answer.outs) : ItemRaised(answer.outs[i]) THEN "item"
                 ELSE "none"
          [] case.node = "analyze_subsidy" ->
                 IF answer.kind = "raise" THEN "stage"
                 ELSE IF SpanParses(answer.text)
                         /\ TruthyDict(JsonLoads(JsonSpan(answer.text)))
                         /\ ~SpanValidates(answer.text) THEN "item"
                 ELSE "none"
          [] case.node = "save_results" ->
                 IF answer.io = "raise" THEN "stage" ELSE "none"

\* what the except clause of each node function writes before the message
ExceptPrefix(node) ==
    CASE node = "extract_bdns"       -> "Error extracting BDNS: "
      [] node = "fetch_subsidy_info" -> "Error fetching subsidy info: "
      [] node = "find_pdf_urls"      -> "Error finding PDFs: "
      [] node = "download_pdfs"      -> "Error in download process: "
      [] node = "analyze_subsidy"    -> "Error in LLM analysis: "
      [] node = "save_results"       -> "Error saving results: "

\* the node set error to the message of its except clause
InError(case, ret) == ret.error # NoneV /\ Val(ret.error)[1] = ExceptPrefix(case.node)

\* the node appended an entry other than the report of its ordinary course
InLogs(case, ret) ==
    /\ IsPrefix(case.st.logs, ret.logs)
    /\ \E i \in (Len(case.st.logs) + 1)..Len(ret.logs) : LogStage(ret.logs[i]) = 0

\* C24 as stated: whatever exception is raised inside a node function, by a
\* collaborator or by its own code, the node catches it and returns the RunState with
\* the failure recorded in error or in logs.
C24_FailureInErrorOrLogs ==
    (NodeApplied /\ Fault(Val(applied).arg) # "none") =>
        LET case == Val(applied).arg
            ret  == Val(applied).ret
        IN  /\ DOMAIN ret = DOMAIN case.st
            /\ InError(case, ret) \/ InLogs(case, ret)

\* C24: whatever exception is raised inside a node function, the node catches it and
\* returns the RunState.  One caught by the try block of the node function is recorded
\* in error, with the node's prefix, and logs stays as it was.  One caught inside
\* (for a single reference in download_pdfs_node, for the validation of the parsed
\* JSON in analyze_subsidy_node) leaves error as it was and logs gains only the node's
\* ordinary entry: the reference is missing from pdf_texts and pdf_count, the parsed
\* JSON is in raw_analysis and analysis_result stays null.
C24_FailureCaughtInNode ==
    NodeApplied =>
        LET case  == Val(applied).arg
            st    == case.st
            ret   == Val(applied).ret
            fault == Fault(case)
        IN  /\ DOMAIN ret = DOMAIN st
            /\ fault = "stage" =>
                   /\ InError(case, ret)
                   /\ ret.logs = st.logs
            /\ fault = "item" =>
                   /\ ret.error = st.error
                   /\ Len(ret.logs) = Len(st.logs) + 1
                   /\ IsPrefix(st.logs, ret.logs)
                   /\ LogStage(ret.logs[Len(ret.logs)]) # 0
                   /\ case.node = "download_pdfs" =>
                          /\ ret.pdf_count = Len(ret.pdf_texts)
                          /\ ret.pdf_count <=
                                 Cardinality({ i \in 1..Len(case.answer.outs) :
                                                 ~ItemRaised(case.answer.outs[i]) })
                   /\ case.node = "analyze_subsidy" =>
                          /\ ret.analysis_result = NoneV
                          /\ TruthyDict(ret.raw_analysis)

\* of two references the download of the first raised and the second gave its text
C24_Witness ==
    /\ NodeApplied
    /\ Val(applied).arg.node = "download_pdfs"
    /\ Fault(Val(applied).arg) = "item"
    /\ Len(Val(applied).arg.answer.outs) = 2
    /\ Val(applied).arg.answer.outs[1].get = "raise"
    /\ Val(applied).ret.pdf_count = 1

\* C25: when the registry answers 200, fetch_subsidy_info_node merges the parsed body
\* into subsidy_data: afterwards every top-level key of the body has the body's value
\* and every other key of subsidy_data has the value it had; and in the whole call no
\* node takes a key out of subsidy_data.
C25_ShallowMergeOnlyGrows ==
    [][ /\ (FetchStep /\ api_call' # NoneV /\ Val(api_call').kind = "http"
              /\ Val(api_call').status = 200 /\ Val(api_call').body # NoneV) =>
               LET body   == Val(Val(api_call').body)
                   before == state.subsidy_data
                   after  == state'.subsidy_data
               IN  /\ DOMAIN after = DOMAIN before \cup DOMAIN body
                   /\ \A k \in DOMAIN body : after[k] = body[k]
                   /\ \A k \in DOMAIN before \ DOMAIN body : after[k] = before[k]
        /\ NodeStep =>
               /\ DOMAIN state.subsidy_data \subseteq DOMAIN state'.subsidy_data
               /\ pc # "fetch_subsidy_info" => state'.subsidy_data = state.subsidy_data ]_vars

\* the data bag came with a code and a documentos list, and the registry answered
\* with another documentos list
C25_Witness ==
    /\ pc = "find_pdf_urls"
    /\ api_call # NoneV
    /\ Val(api_call).kind = "http" /\ Val(api_call).status = 200
    /\ Val(api_call).body = Some([documentos |-> <<AnexoPdf, BasesPdf>>])
    /\ entry.method = "analyze_from_data"
    /\ DOMAIN entry.subsidy_data = {"codigo_bdns", "documentos"}
    /\ state.subsidy_data = [codigo_bdns |-> Code845, documentos |-> <<AnexoPdf, BasesPdf>>]

\* the nodes after find_pdf_urls_node, and the nodes after download_pdfs_node
AfterLocator == {"download_pdfs", "analyze_subsidy", "save_results"}
AfterAcquirer == {"analyze_subsidy", "save_results"}

\* C26: a non-empty bdns_code is never changed by a node; pdf_urls is not changed by
\* a node after find_pdf_urls_node; pdf_texts and pdf_count are not changed by a node
\* after download_pdfs_node; nor does the return of the entry point change them.
C26_FieldsWrittenOnce ==
    [][ /\ NodeStep =>
               /\ TruthySeq(state.bdns_code) => state'.bdns_code = state.bdns_code
               /\ pc \in AfterLocator => state'.pdf_urls = state.pdf_urls
               /\ pc \in AfterAcquirer =>
                      /\ state'.pdf_texts = state.pdf_texts
                      /\ state'.pdf_count = state.pdf_count
        /\ pc = "END" =>
               /\ state'.bdns_code = state.bdns_code
               /\ state'.pdf_urls = state.pdf_urls
               /\ state'.pdf_texts = state.pdf_texts
               /\ state'.pdf_count = state.pdf_count ]_vars

\* a call that found references, extracted a text, and wrote its result
C26_Witness ==
    /\ pc = "END"
    /\ TruthySeq(state.bdns_code)
    /\ Len(state.pdf_urls) = 2
    /\ Len(state.pdf_texts) = 1
    /\ state.analysis_result # NoneV
    /\ Len(saved) = 1

\* the GET answered 200 with bytes that start with the signature, and the text of the
\* PDF, which PdfReader gives without raising, is not blank
TextAvailable(out) ==
    /\ out.get = "ok" /\ out.status = 200
    /\ validate_pdf_content(out.content)
    /\ out.reader = "ok"
    /\ TruthySeq(Strip(PagesText(out.pages)))

\* C27 as stated: a reference has an entry in pdf_texts if and only if its GET returned
\* 200, the body starts with the PDF signature, text extraction raised no exception
\* and the text is non-empty after trimming; no entry has an empty text.
C27_EntryIffTextAvailable ==
    [][ AcquireStep =>
            LET outs == Val(downloads').outs
                refs == state.pdf_urls
            IN  /\ TextNames(state'.pdf_texts) =
                       Pick(RefNames(refs), { i \in 1..Len(outs) : TextAvailable(outs[i]) }, 1)
                /\ \A k \in 1..Len(state'.pdf_texts) :
                       TruthySeq(Strip(state'.pdf_texts[k].text)) ]_vars

\* C27: a reference has an entry in pdf_texts if and only if its GET returned 200, the
\* body starts with the PDF signature, the copy of the PDF was written to the
\* download directory without an exception, text extraction raised no exception and
\* the text is non-empty after trimming; the entry holds that text, and no entry has
\* an empty text.
C27_EntryIffSavedAndTextAvailable ==
    [][ AcquireStep =>
            LET outs == Val(downloads').outs
                refs == state.pdf_urls
                kept == { i \in 1..Len(outs) : TextAvailable(outs[i]) /\ outs[i].write = "ok" }
            IN  /\ TextNames(state'.pdf_texts) = Pick(RefNames(refs), kept, 1)
                /\ Len(state'.pdf_texts) = Cardinality(kept)
                /\ \A k \in 1..Len(state'.pdf_texts) :
                       /\ TruthySeq(Strip(state'.pdf_texts[k].text))
                       /\ \E i \in kept : state'.pdf_texts[k].text = PagesText(outs[i].pages) ]_vars

\* of two PDFs with text the copy of the first could not be written
C27_Witness ==
    /\ pc = "analyze_subsidy"
    /\ downloads # NoneV /\ Val(downloads).mkdir = "ok"
    /\ Len(Val(downloads).outs) = 2
    /\ TextAvailable(Val(downloads).outs[1]) /\ Val(downloads).outs[1].write = "raise"
    /\ TextAvailable(Val(downloads).outs[2]) /\ Val(downloads).outs[2].write = "ok"
    /\ Len(state.pdf_texts) = 1
    /\ state.pdf_texts[1].filename = state.pdf_urls[2].name

\* the reference gave no entry: its download, the check of its bytes, the write of its
\* copy or the extraction of its text failed, or it had no text
Failed(out) == ~(TextAvailable(out) /\ out.write = "ok")

\* C28: download_pdfs_node goes through pdf_urls in order and calls session.get
\* exactly once for each reference, with no retry, whatever happened to the references
\* before it; a failure for one reference neither sets error nor ends the loop: the
\* references after it are still downloaded and kept, and the node appends its entry.
C28_OneGetPerReference ==
    [][ AcquireStep =>
            LET outs == Val(downloads').outs
                gets == Val(downloads').gets
                refs == state.pdf_urls
            IN  /\ gets = [i \in 1..Len(refs) |-> refs[i].url]
                /\ Len(outs) = Len(refs)
                /\ state'.error = state.error
                /\ state'.pdf_count = Cardinality({ i \in 1..Len(refs) : ~Failed(outs[i]) })
                /\ \A i \in 1..Len(refs) :
                       (~Failed(outs[i]) /\ \E j \in 1..(i - 1) : Failed(outs[j])) =>
                           \E k \in 1..Len(state'.pdf_texts) :
                               state'.pdf_texts[k].filename = refs[i].name
                /\ Len(state'.logs) = Len(state.logs) + 1 ]_vars

\* the GET of the first reference raised and the second reference was still asked
\* for and kept
C28_Witness ==
    /\ pc = "analyze_subsidy"
    /\ downloads # NoneV /\ Val(downloads).mkdir = "ok"
    /\ Len(Val(downloads).gets) = 2
    /\ Val(downloads).gets[1] # Val(downloads).gets[2]
    /\ Val(downloads).outs[1].get = "raise"
    /\ ~Failed(Val(downloads).outs[2])
    /\ state.pdf_count = 1
    /\ state.error = NoneV

\* C29: analysis_result is non-null only if the parsed JSON of the completion has all
\* four sub-records with their required fields; a parsed JSON that lacks any of them
\* leaves analysis_result null and is stored whole in raw_analysis (to which the
\* metadata is then added).
C29_NoPartialStructuredResult ==
    /\ state.analysis_result # NoneV =>
           /\ completion.kind = "text"
           /\ SpanValidates(completion.text)
           /\ \A k \in SubRecords : k \in DOMAIN Val(state.analysis_result)
    /\ (pc \in {"save_results", "END"} /\ completion.kind = "text"
          /\ SpanParses(completion.text) /\ ~SpanValidates(completion.text)) =>
           LET parsed == Val(JsonLoads(JsonSpan(completion.text)))
           IN  /\ state.analysis_result = NoneV
               /\ state.raw_analysis # NoneV
               /\ DOMAIN Val(state.raw_analysis) \ {"metadata"} = DOMAIN parsed
               /\ \A k \in DOMAIN parsed : Val(state.raw_analysis)[k] = parsed[k]

\* the metadata mapping m describes the state: its subsidy_code is the state's
\* bdns_code, its pdf_count the number of pdf_texts, its used_pdf whether there are any
Describes(m, st) ==
    /\ DOMAIN m = {"analysis_date", "subsidy_code", "used_pdf", "pdf_count",
                   "model_used", "version", "token_usage"}
    /\ m.subsidy_code = st.bdns_code
    /\ m.pdf_count = Len(st.pdf_texts)
    /\ m.used_pdf <=> (st.pdf_texts # <<>>)

\* C30: once analyze_subsidy_node has obtained a completion, one of analysis_result
\* and raw_analysis is present and carries the metadata: on analysis_result.metadata
\* when the result is structured, under the metadata key of raw_analysis otherwise;
\* its subsidy_code is the state's bdns_code, its pdf_count is len(pdf_texts) and
\* its used_pdf is true exactly when pdf_texts is non-empty.
C30_MetadataAttached ==
    (pc \in {"save_results", "END"} /\ completion.kind = "text") =>
        IF state.analysis_result # NoneV
        THEN /\ Describes(Val(state.analysis_result).metadata, state)
             /\ state.raw_analysis = NoneV
        ELSE /\ state.raw_analysis # NoneV
             /\ "metadata" \in DOMAIN Val(state.raw_analysis)
             /\ Describes(Val(state.raw_analysis)["metadata"], state)

\* a raw-JSON outcome after a download that failed: one URL, no text
C30_Witness ==
    /\ pc = "END"
    /\ completion.kind = "text"
    /\ SpanParses(completion.text)
    /\ state.analysis_result = NoneV
    /\ state.raw_analysis # NoneV
    /\ "metadata" \in DOMAIN Val(state.raw_analysis)
    /\ Len(state.pdf_urls) > Len(state.pdf_texts)
    /\ ~Val(state.raw_analysis)["metadata"].used_pdf

\* messages is one system message followed by one user message
SystemThenUser(messages) ==
    /\ Len(messages) = 2
    /\ messages[1].role = "system"
    /\ messages[2].role = "human"

Answers(node, st) ==
    CASE node = "extract_bdns"       -> {[raise |-> NoneV]}
      [] node = "fetch_subsidy_info" -> ApiResponses
      [] node = "find_pdf_urls"      -> {<<>>}
      [] node = "download_pdfs"      ->
             { [mkdir |-> "ok", msg |-> <<>>, outs |-> outs] :
                 outs \in [1..Len(st.pdf_urls) -> Outcomes] }
      [] node = "analyze_subsidy"    -> LlmResponses
      [] node = "save_results"       -> {[io |-> "ok", msg |-> <<>>]}

\* st with a processing_time already in it
Timed(st) == [st EXCEPT !.processing_time = Some(CHOOSE t \in Elapsed : TRUE)]

\* C32: processing_time is null in the RunState while the six nodes run and until the
\* entry point writes it after workflow.invoke has returned from save_results; no node
\* writes it, and no node reads it: handed a state that differs only in
\* processing_time, every node returns a state that differs only in processing_time.
C32_ProcessingTimeOnlyByDriver ==
    [][ /\ pc' \in NodeSet \cup {"END"} => state'.processing_time = NoneV
        /\ state'.processing_time # state.processing_time =>
               /\ pc = "END" /\ pc' = "done"
               /\ trace = Nodes
               /\ path' = "pipeline"
        /\ pc \in NodeSet =>
               \A answer \in Answers(pc, state) :
                   NodeOf([node |-> pc, st |-> Timed(state), answer |-> answer])
                     = Timed(NodeOf([node |-> pc, st |-> state, answer |-> answer]))
      ]_vars

\* the run returned through the pipeline with an artifact saved: the RunState now
\* holds the processing_time
C32_Witness ==
    /\ pc = "done"
    /\ path = "pipeline"
    /\ saved # <<>>
    /\ state.processing_time # NoneV
    /\ Val(result).processing_time = Val(state.processing_time)

\* the positions of a call, in the order the compiled graph and the entry point
\* go through them
Positions == <<"idle">> \o Nodes \o <<"END", "done">>
Position(p) ==
    IF \E i \in 1..Len(Positions) : Positions[i] = p
    THEN CHOOSE i \in 1..Len(Positions) : Positions[i] = p
    ELSE 0

\* C33: when every collaborator call returns or raises, a run that has started the
\* pipeline terminates with a result.  It cannot stall: wherever it is short of
\* its return, the next node or the return of the entry point can act.
\* It cannot go back or stay: every step takes it to a later position, a node never
\* being entered twice.  It ends only at the return, with a result: through the
\* normal return after save_results, all six nodes having run once each, or through
\* the except clause.
C33_RunsTerminate ==
    /\ [](/\ pc \notin {"idle", "done"} => ENABLED RunStep
          /\ pc = "done" /\ path # "precheck" =>
                 /\ result # NoneV
                 /\ \/ path = "pipeline" /\ trace = Nodes
                    \/ path = "exception" /\ raised # NoneV)
    /\ [][ /\ Position(pc') > Position(pc)
           /\ \A i \in 1..Len(trace) : pc' # trace[i] ]_vars

\* a run that returned through the normal return, unsuccessful, after a registry
\* request that raised
C33_Witness ==
    /\ pc = "done"
    /\ path = "pipeline"
    /\ trace = Nodes
    /\ api_call # NoneV
    /\ Val(api_call).kind = "raise"
    /\ result # NoneV
    /\ ~Val(result).success

\* C34: the result of a run that returned through the pipeline with success = true
\* holds exactly one of analysis_result and raw_analysis.
C34_SuccessCarriesOneResult ==
    (Returned /\ path = "pipeline" /\ Res.success) =>
        (Res.analysis_result # NoneV) # (Res.raw_analysis # NoneV)

\* a successful run whose result is the raw JSON
C34_Witness ==
    /\ Returned
    /\ path = "pipeline"
    /\ Res.success
    /\ Res.analysis_result = NoneV
    /\ Res.raw_analysis # NoneV
    /\ "raw_response" \notin DOMAIN Val(Res.raw_analysis)

\* C35: fetch_subsidy_info_node makes no request with an empty bdns_code: handed
\* one, it sets error to "No BDNS code available for API call" and returns with
\* subsidy_data and logs unchanged; every request it makes names a non-empty code.
C35_NoRequestWithoutCode ==
    [][ (pc = "fetch_subsidy_info" /\ pc' = "find_pdf_urls") =>
            /\ ~TruthySeq(state.bdns_code) =>
                   /\ api_call' = NoneV
                   /\ state' = [state EXCEPT
                                  !.error = Some(<<"No BDNS code available for API call">>)]
            /\ api_call' # NoneV =>
                   /\ TruthySeq(state.bdns_code)
                   /\ RegistryRequest(state) =
                          Some(<<"https://www.subvenciones.gob.es/bdnstrans/api/convocatorias?numConv=">>
                               \o state.bdns_code \o <<"&vpd=GE">>) ]_vars

\* the node was handed a data bag and no code: no request, the bag and the logs as
\* they were
C35_Witness ==
    /\ pc = "find_pdf_urls"
    /\ ~TruthySeq(state.bdns_code)
    /\ api_call = NoneV
    /\ state.error = Some(<<"No BDNS code available for API call">>)
    /\ state.subsidy_data # EmptyDict
    /\ state.logs = <<>>

\* analyze_subsidy_node found no JSON in the completion text of a run with a
\* non-empty code, and save_results_node has run since
SavedAfterNoJson ==
    /\ pc \in {"END", "done"}
    /\ trace = Nodes
    /\ completion.kind = "text"
    /\ state.raw_analysis # NoneV
    /\ "raw_response" \in DOMAIN Val(state.raw_analysis)
    /\ TruthySeq(state.bdns_code)

\* file is a JSON object whose raw_response is the completion text
HoldsRawResponse(file) ==
    /\ JsonLoads(file.text) # NoneV
    /\ "raw_response" \in DOMAIN Val(JsonLoads(file.text))
    /\ Val(JsonLoads(file.text))["raw_response"] = JText(completion.text)

\* C36 as stated: when analyze_subsidy_node set error because no JSON could be
\* extracted and the code is non-empty, save_results_node still writes an artifact
\* holding the raw_response, and the run returns success = false.
C36_ErrorDoesNotGateArtifact ==
    SavedAfterNoJson =>
        /\ Len(saved) = 1
        /\ HoldsRawResponse(saved[1])
        /\ (Returned /\ path = "pipeline") => ~Res.success

\* C36 amended: in that case save_results_node is not stopped by error: it attempts
\* the write.  When the write succeeds there is one artifact holding the
\* raw_response and error still is "Could not extract valid JSON from LLM response";
\* when creating the directory or writing the file raises, there is no artifact and
\* error is "Error saving results: <message>".  Either way the run returns
\* success = false.
C36_ErrorDoesNotGateSaving ==
    SavedAfterNoJson =>
        /\ \/ /\ Len(saved) = 1
              /\ HoldsRawResponse(saved[1])
              /\ saved[1].path = ResultPath(state)
              /\ state.error = Some(<<"Could not extract valid JSON from LLM response">>)
           \/ /\ saved = <<>>
              /\ StartsWith(state.error, "Error saving results: ")
        /\ (Returned /\ path = "pipeline") => ~Res.success

\* a run that returned success = false and left an artifact with the raw response
C36_Witness ==
    /\ SavedAfterNoJson
    /\ Returned
    /\ path = "pipeline"
    /\ ~Res.success
    /\ Len(saved) = 1
    /\ HoldsRawResponse(saved[1])
    /\ completion.text # <<>>

\* download_pdfs_node was handed two references on their own
Stored == applied # NoneV /\ Val(applied).function = "download_pdfs_node"
\* the i-th of them was written to the download directory
Wrote(i) ==
    LET out == Val(applied).arg.outs[i]
    IN  out.get = "ok" /\ out.status = 200 /\ validate_pdf_content(out.content) /\ out.write = "ok"
\* and text was extracted from it
Texted(i) ==
    LET out == Val(applied).arg.outs[i]
    IN  Wrote(i) /\ out.reader = "ok" /\ Strip(PagesText(out.pages)) # <<>>

\* C37: two references of one run whose display names clean to the same name (equal
\* names, or names whose cleaned forms agree on their first 50 characters) are stored
\* under the same path <download dir>/<code>_<cleaned name>.pdf: when both are
\* written the directory holds one file at that path, with the bytes of the later
\* download, and when text was extracted from both, both entries are in pdf_texts
\* with that same path.  References whose cleaned names differ get a file each.
C37_SameCleanNameSamePath ==
    Stored =>
        LET refs == Val(applied).arg.pdf_urls
            outs == Val(applied).arg.outs
            ret  == Val(applied).ret
            code == ret.state.bdns_code
            pathOf(i) == DownloadDir \o code \o <<"_">> \o clean_filename(refs[i].name)
                         \o <<".pdf">>
        IN  /\ clean_filename(refs[1].name) = clean_filename(refs[2].name) =>
                   /\ pathOf(1) = pathOf(2)
                   /\ (Wrote(1) /\ Wrote(2)) =>
                          /\ DOMAIN ret.directory = {pathOf(1)}
                          /\ ret.directory[pathOf(1)] = outs[2].content
                   /\ (Texted(1) /\ Texted(2)) =>
                          /\ Len(ret.state.pdf_texts) = 2
                          /\ \A i \in 1..2 :
                                 /\ ret.state.pdf_texts[i].filename = refs[i].name
                                 /\ ret.state.pdf_texts[i].path = pathOf(1)
            /\ (clean_filename(refs[1].name) # clean_filename(refs[2].name)
                  /\ Wrote(1) /\ Wrote(2)) =>
                   /\ DOMAIN ret.directory = {pathOf(1), pathOf(2)}
                   /\ ret.directory[pathOf(1)] = outs[1].content
                   /\ ret.directory[pathOf(2)] = outs[2].content

\* two long names that differ after their fiftieth character, two downloads with
\* different bytes and text in both: one file, holding the later bytes, and two
\* entries
C37_Witness ==
    /\ Stored
    /\ Len(Val(applied).arg.pdf_urls[1].name) > max_length
    /\ Val(applied).arg.pdf_urls[1].name # Val(applied).arg.pdf_urls[2].name
    /\ Texted(1) /\ Texted(2)
    /\ Val(applied).arg.outs[1].content # Val(applied).arg.outs[2].content
    /\ Cardinality(DOMAIN Val(applied).ret.directory) = 1
    /\ \A p \in DOMAIN Val(applied).ret.directory :
           Val(applied).ret.directory[p] = Val(applied).arg.outs[2].content
    /\ Len(Val(applied).ret.state.pdf_texts) = 2
    /\ Val(applied).ret.state.pdf_texts[1].path = Val(applied).ret.state.pdf_texts[2].path

\* the code field of the data bag analyze_from_data was called with: codigo_bdns,
\* or else bdns_code
CodeField == OrOpt(Get(entry.subsidy_data, "codigo_bdns"), Get(entry.subsidy_data, "bdns_code"))

\* C38: in a call of analyze_from_data whose data bag has a code field (codigo_bdns,
\* then bdns_code), the code of the run is that field from the first node to the
\* return, whatever code the bag's source_url ends in, and extract_bdns_node does not
\* parse the URL: it reports the field as the code.
C38_CodeFieldBeforeUrl ==
    (entry.method = "analyze_from_data" /\ TruthyOpt(CodeField)) =>
        /\ path # "precheck"
        /\ state.bdns_code = Val(CodeField)
        /\ pc = "extract_bdns" => ~ParsesUrl(state)
        /\ trace # <<>> =>
               /\ state.logs # <<>>
               /\ state.logs[1] = <<"BDNS code: ">> \o Val(CodeField)
        /\ api_call # NoneV => RegistryRequest(state) = RegistryRequest(
               SubsidyState(Val(CodeField), NoneV, EmptyDict))

\* the bag names 845 in codigo_bdns and its source_url ends in 77: the run went
\* through with 845, and asked the registry
C38_Witness ==
    /\ entry.method = "analyze_from_data"
    /\ Get(entry.subsidy_data, "codigo_bdns") = Some(Code845)
    /\ Get(entry.subsidy_data, "source_url") = Some(ConvocatoriasUrl \o Code77)
    /\ pc = "END"
    /\ state.bdns_code = Code845
    /\ api_call # NoneV

\* the code of the run was never resolved
Unresolved(st) == ~TruthySeq(st.bdns_code)

\* C39: with a code that was never resolved and a data bag that lists PDF
\* descriptors, find_pdf_urls_node still emits a reference for each of them, its URL
\* built with the empty code (.../convocatoria//document/<id>), and the loop of
\* download_pdfs_node still asks for each of these URLs and keeps the texts it
\* gets; what the empty code suppresses is the registry request and the artifact.
C39_UnresolvedStillLocatesAndAcquires ==
    [][ /\ (LocatorRan' /\ Unresolved(state')
              /\ \A i \in 1..Len(Documentos(state')) : Documentos(state')[i].t = "obj") =>
               /\ RefsMatch(state'.pdf_urls, Documentos(state'), <<>>,
                            HasNonEmptyId, DisplayNameOrUnknown)
               /\ \A k \in 1..Len(state'.pdf_urls) :
                      state'.pdf_urls[k].url =
                          DocumentUrl \o <<"/", "document", "/">> \o state'.pdf_urls[k].id
               /\ RegistryRequest(state') = NoneV
               /\ SavedFiles(state', "ok") = <<>>
        /\ (AcquireStep /\ Unresolved(state)) =>
               /\ Val(downloads').gets = [i \in 1..Len(state.pdf_urls) |-> state.pdf_urls[i].url]
               /\ state'.pdf_count =
                      Cardinality({ i \in 1..Len(state.pdf_urls) : ~Failed(Val(downloads').outs[i]) })
               /\ Len(state'.pdf_texts) = state'.pdf_count
      ]_vars

\* no code, two PDF descriptors in the data bag: both were asked for under
\* .../convocatoria//document/, and the text of one was kept
C39_Witness ==
    /\ pc = "analyze_subsidy"
    /\ Unresolved(state)
    /\ Len(Documentos(state)) = 2
    /\ Len(state.pdf_urls) = 2
    /\ downloads # NoneV
    /\ Val(downloads).gets = << DocumentUrl \o <<"/", "document", "/", "8">>,
                                DocumentUrl \o <<"/", "document", "/", "8">> >>
    /\ Len(state.pdf_texts) = 1
    /\ state.pdf_texts[1].path = PdfPath(<<>>, state.pdf_urls[1].name)

\* analyze_subsidy_enhanced was applied: its arguments and what it did
Enhanced == applied # NoneV /\ Val(applied).function = "analyze_subsidy_enhanced"

\* the completion gave no JSON object: it raised, had no content, had no {...}
\* span, or had a span that json.loads rejects
NoJsonRecovered(resp) ==
    \/ resp.kind = "raise"
    \/ resp.content = NoneV
    \/ ~HasJsonSpan(Val(resp.content))
    \/ JsonLoads(JsonSpan(Val(resp.content))) = NoneV

\* the keys every analysis_metadata record has
MetadataKeys == {"analysis_date", "subsidy_code", "used_pdf", "model_used", "version"}

\* C40: analyze_subsidy_enhanced never raises: whatever the document search, the
\* completion and the save did, it returns a mapping that holds an
\* analysis_metadata record, and when no JSON was recovered from the completion the
\* mapping is the fallback analysis (its nine sections, with the code and the title
\* of the data bag).
C40_EnhancedNeverRaises ==
    Enhanced =>
        LET a == Val(applied).arg
            r == Val(applied).ret
        IN  /\ r.kind = "return"
            /\ "analysis_metadata" \in DOMAIN r.value
            /\ r.value["analysis_metadata"].t = "obj"
            /\ MetadataKeys \subseteq DOMAIN r.value["analysis_metadata"].o
            /\ r.value["analysis_metadata"].o["subsidy_code"] = JText(SubsidyCode(a.subsidy_data))
            /\ NoJsonRecovered(a.resp) =>
                   /\ DOMAIN r.value = AnalysisSections \cup {"analysis_metadata"}
                   /\ \A k \in AnalysisSections \ {"subsidy_metadata"} : r.value[k] = JStr
                   /\ r.value["subsidy_metadata"].t = "obj"
                   /\ r.value["subsidy_metadata"].o["code"] = JText(SubsidyCode(a.subsidy_data))
                   /\ r.value["subsidy_metadata"].o["title"] =
                          JText(GetOr(a.subsidy_data, "title", <<"Unknown">>))

\* the completion raised after a document search that found a text: the fallback
\* analysis of a bag without a code came back, marked as a fallback
C40_Witness ==
    /\ Enhanced
    /\ Val(applied).arg.resp = ChatRaised
    /\ Val(applied).arg.discovery.docs # <<>>
    /\ "codigo_bdns" \notin DOMAIN Val(applied).arg.subsidy_data
    /\ "bdns_code" \notin DOMAIN Val(applied).arg.subsidy_data
    /\ Val(applied).ret.kind = "return"
    /\ Val(applied).ret.files = <<>>
    /\ "fallback_analysis" \in DOMAIN Val(applied).ret.value["analysis_metadata"].o
    /\ Val(applied).ret.value["analysis_metadata"].o["subsidy_code"] = JText(<<"unknown">>)

====
